---- MODULE Spec2Model ----
(***************************************************************************)
(* Odds store, collection runs and result reconciliation of you_bet.       *)
(*                                                                         *)
(* The store is the SQLite database of src/src/database.py; every helper   *)
(* of that file commits its own write.  Text values are TLA+ strings,      *)
(* prices are integers in thousandths (2000 is the decimal price 2.000),   *)
(* SQL NULL / Python None is the empty tuple.                              *)
(***************************************************************************)
EXTENDS Integers, Sequences, FiniteSets, TLC

VARIABLES
    db,      \* the database: leagues, bookmakers, matches, results, odds
    now,     \* CURRENT_TIMESTAMP, in whole seconds
    pc,      \* the run in progress: "idle", "known_results", "api_odds",
             \* "oddschecker", "api_results", or "raised" (a run that threw)
    queue,   \* results_data still to be processed by update_from_known_results
    stats,   \* the tally of the run in progress
    units,   \* number of units the fetcher has yielded in the run in progress
    last,    \* history: what the latest step did
    hist     \* history: previous reconciliation run, latest insert_result per fixture

vars == <<db, now, pc, queue, stats, units, last, hist>>

----------------------------------------------------------------------------
(* Bounds *)

MaxMatches == 2
MaxOddsRows == 3
MaxUnits == 2
MaxReports == 2
MaxClock == 1

----------------------------------------------------------------------------
(* Python values *)

None == <<>>

Some(v) == <<v>>

abs(x) == IF x < 0 THEN -x ELSE x

RECURSIVE SeqToSet(_)
SeqToSet(s) == IF Len(s) = 0 THEN {} ELSE {Head(s)} \cup SeqToSet(Tail(s))

----------------------------------------------------------------------------
(* str methods used by the matcher *)

UPPER == "ABCDEFGHIJKLMNOPQRSTUVWXYZ"

LOWER == "abcdefghijklmnopqrstuvwxyz"

lower_char(c) ==
    IF \E i \in 1..Len(UPPER) : SubSeq(UPPER, i, i) = c
    THEN LET i == CHOOSE j \in 1..Len(UPPER) : SubSeq(UPPER, j, j) = c
         IN  SubSeq(LOWER, i, i)
    ELSE c

RECURSIVE lower(_)
lower(s) ==
    IF Len(s) = 0 THEN ""
    ELSE lower_char(SubSeq(s, 1, 1)) \o lower(SubSeq(s, 2, Len(s)))

RECURSIVE lstrip(_)
lstrip(s) ==
    IF Len(s) > 0 /\ SubSeq(s, 1, 1) = " " THEN lstrip(SubSeq(s, 2, Len(s))) ELSE s

RECURSIVE rstrip(_)
rstrip(s) ==
    IF Len(s) > 0 /\ SubSeq(s, Len(s), Len(s)) = " "
    THEN rstrip(SubSeq(s, 1, Len(s) - 1)) ELSE s

strip(s) == rstrip(lstrip(s))

endswith(s, suffix) ==
    /\ Len(suffix) <= Len(s)
    /\ SubSeq(s, Len(s) - Len(suffix) + 1, Len(s)) = suffix

\* Python's `sub in s` on strings
contains(sub, s) ==
    \E i \in 1..(Len(s) - Len(sub) + 1) : SubSeq(s, i, i + Len(sub) - 1) = sub

----------------------------------------------------------------------------
(* Team-name matcher, src/src/espn_results.py *)

TEAM_ALIASES == <<
    [alias |-> "man united", variants |-> <<"manchester united">>],
    [alias |-> "man city", variants |-> <<"manchester city">>],
    [alias |-> "newcastle", variants |-> <<"newcastle united", "newcastle utd">>],
    [alias |-> "nottm forest", variants |-> <<"nottingham forest">>],
    [alias |-> "brighton", variants |-> <<"brighton and hove albion", "brighton & hove albion">>],
    [alias |-> "tottenham", variants |-> <<"tottenham hotspur">>],
    [alias |-> "west ham", variants |-> <<"west ham united">>],
    [alias |-> "wolves", variants |-> <<"wolverhampton wanderers", "wolverhampton">>],
    [alias |-> "leicester", variants |-> <<"leicester city">>],
    [alias |-> "atletico madrid", variants |-> <<"atlético madrid", "atletico de madrid", "atlético de madrid">>],
    [alias |-> "athletic club", variants |-> <<"athletic bilbao", "athletic club bilbao">>],
    [alias |-> "real betis", variants |-> <<"real betis balompié", "real betis balompie">>],
    [alias |-> "bayern munich", variants |-> <<"fc bayern munich", "bayern münchen", "fc bayern münchen">>],
    [alias |-> "rb leipzig", variants |-> <<"rasenballsport leipzig", "rbl leipzig">>],
    [alias |-> "dortmund", variants |-> <<"borussia dortmund">>],
    [alias |-> "gladbach", variants |-> <<"borussia mönchengladbach", "borussia monchengladbach">>],
    [alias |-> "leverkusen", variants |-> <<"bayer leverkusen", "bayer 04 leverkusen">>],
    [alias |-> "hoffenheim", variants |-> <<"tsg hoffenheim", "1899 hoffenheim">>],
    [alias |-> "wolfsburg", variants |-> <<"vfl wolfsburg">>],
    [alias |-> "cologne", variants |-> <<"fc cologne", "1. fc köln", "fc köln", "1. fc koln">>],
    [alias |-> "st. pauli", variants |-> <<"fc st. pauli", "st pauli">>],
    [alias |-> "mainz", variants |-> <<"mainz 05", "1. fsv mainz 05">>],
    [alias |-> "inter", variants |-> <<"internazionale", "inter milan", "fc internazionale milano">>],
    [alias |-> "ac milan", variants |-> <<"milan">>],
    [alias |-> "roma", variants |-> <<"as roma">>],
    [alias |-> "napoli", variants |-> <<"ssc napoli">>],
    [alias |-> "juventus", variants |-> <<"juventus fc">>],
    [alias |-> "lazio", variants |-> <<"ss lazio">>],
    [alias |-> "atalanta", variants |-> <<"atalanta bc">>],
    [alias |-> "psg", variants |-> <<"paris saint-germain", "paris saint germain", "paris sg">>],
    [alias |-> "monaco", variants |-> <<"as monaco">>],
    [alias |-> "lyon", variants |-> <<"olympique lyonnais", "olympique lyon">>],
    [alias |-> "marseille", variants |-> <<"olympique marseille", "olympique de marseille">>],
    [alias |-> "lille", variants |-> <<"lille osc", "losc lille">>],
    [alias |-> "ajax", variants |-> <<"ajax amsterdam", "afc ajax">>],
    [alias |-> "psv", variants |-> <<"psv eindhoven">>],
    [alias |-> "feyenoord", variants |-> <<"feyenoord rotterdam">>],
    [alias |-> "az", variants |-> <<"az alkmaar">>],
    [alias |-> "sporting", variants |-> <<"sporting cp", "sporting lisbon", "sporting clube de portugal">>],
    [alias |-> "benfica", variants |-> <<"sl benfica">>],
    [alias |-> "porto", variants |-> <<"fc porto">>],
    [alias |-> "young boys", variants |-> <<"bsc young boys">>],
    [alias |-> "club brugge", variants |-> <<"club brugge kv">>],
    [alias |-> "anderlecht", variants |-> <<"rsc anderlecht">>],
    [alias |-> "union sg", variants |-> <<"union saint-gilloise", "royale union saint-gilloise">>]
>>

SUFFIXES == <<" fc", " cf", " sc", " ac", " afc", " ssc">>

\* the `for suffix in [...]` loop: every suffix is tried in turn on the
\* name as the earlier iterations left it
RECURSIVE strip_suffixes(_, _)
strip_suffixes(name, i) ==
    IF i > Len(SUFFIXES) THEN name
    ELSE strip_suffixes(
             IF endswith(name, SUFFIXES[i])
             THEN SubSeq(name, 1, Len(name) - Len(SUFFIXES[i]))
             ELSE name,
             i + 1)

normalize_team_name(name) == strip_suffixes(strip(lower(name)), 1)

\* the mutation: teams_match without the alias table
teams_match_without_aliases(espn_name, db_name) ==
    LET espn_norm == normalize_team_name(espn_name)
        db_norm == normalize_team_name(db_name)
    IN  \/ espn_norm = db_norm
        \/ contains(espn_norm, db_norm)
        \/ contains(db_norm, espn_norm)

teams_match(espn_name, db_name) ==
    LET espn_norm == normalize_team_name(espn_name)
        db_norm == normalize_team_name(db_name)
    IN  \/ espn_norm = db_norm
        \/ contains(espn_norm, db_norm)
        \/ contains(db_norm, espn_norm)
        \/ \E k \in 1..Len(TEAM_ALIASES) :
              LET alias == TEAM_ALIASES[k].alias
                  variants == TEAM_ALIASES[k].variants
              IN  /\ (espn_norm = alias \/ espn_norm \in SeqToSet(variants))
                  /\ \/ db_norm = alias
                     \/ db_norm \in SeqToSet(variants)
                     \/ \E j \in 1..Len(variants) :
                           \/ db_norm = variants[j]
                           \/ contains(variants[j], db_norm)
                           \/ contains(db_norm, variants[j])

----------------------------------------------------------------------------
(* datetime: h is the number of whole hours since 2026-01-01T00:00, aware  *)
(* tells whether the value carries the UTC offset (API values do, scraped  *)
(* values do not)                                                          *)

DIGITS == "0123456789"

two_digits(n) ==
    SubSeq(DIGITS, (n \div 10) + 1, (n \div 10) + 1) \o SubSeq(DIGITS, (n % 10) + 1, (n % 10) + 1)

isoformat(dt) ==
    "2026-01-" \o two_digits(1 + (dt.h \div 24)) \o "T" \o two_digits(dt.h % 24)
        \o ":00:00" \o (IF dt.aware THEN "+00:00" ELSE "")

\* SQLite compares TEXT byte by byte; the characters of an ISO timestamp in
\* ascending byte order
COLLATION == "+-0123456789:T"

ord(c) == CHOOSE i \in 1..Len(COLLATION) : SubSeq(COLLATION, i, i) = c

RECURSIVE text_less(_, _)
text_less(a, b) ==
    IF Len(b) = 0 THEN FALSE
    ELSE IF Len(a) = 0 THEN TRUE
    ELSE IF SubSeq(a, 1, 1) = SubSeq(b, 1, 1)
         THEN text_less(SubSeq(a, 2, Len(a)), SubSeq(b, 2, Len(b)))
         ELSE ord(SubSeq(a, 1, 1)) < ord(SubSeq(b, 1, 1))

----------------------------------------------------------------------------
(* The database, src/src/database.py.  A table is the sequence of its rows *)
(* in rowid order; the id of a league, bookmaker or match is its index.    *)

EmptyDb ==
    [leagues |-> <<>>, bookmakers |-> <<>>, matches |-> <<>>,
     results |-> <<>>, odds |-> <<>>]

\* the outcome of a helper: the database it leaves, the id it returns, and
\* whether it raised instead of returning
Returned(d, id) == [db |-> d, id |-> id, raised |-> FALSE]

Raised(d) == [db |-> d, id |-> 0, raised |-> TRUE]

Min(S) == CHOOSE x \in S : \A y \in S : x <= y

\* the rows left when those that conflict on UNIQUE match_id are deleted
RECURSIVE delete_conflicting(_, _)
delete_conflicting(rows, match_id) ==
    IF Len(rows) = 0 THEN <<>>
    ELSE (IF Head(rows).match_id = match_id THEN <<>> ELSE <<Head(rows)>>)
             \o delete_conflicting(Tail(rows), match_id)

get_or_create_league(d, key, name, country) ==
    LET found == {i \in 1..Len(d.leagues) : d.leagues[i].key = key}
    IN  IF found # {} THEN Returned(d, Min(found))
        ELSE Returned(
                 [d EXCEPT !.leagues =
                     Append(@, [key |-> key, name |-> name, country |-> country])],
                 Len(d.leagues) + 1)

\* bookmakers.name is NOT NULL: inserting a bookmaker without a title raises
get_or_create_bookmaker(d, key, name) ==
    LET found == {i \in 1..Len(d.bookmakers) : d.bookmakers[i].key = key}
    IN  IF found # {} THEN Returned(d, Min(found))
        ELSE IF name = None THEN Raised(d)
        ELSE Returned(
                 [d EXCEPT !.bookmakers = Append(@, [key |-> key, name |-> name[1]])],
                 Len(d.bookmakers) + 1)

\* get_or_create_match without the look-up
create_match(d, league_id, home_team, away_team, commence_time, external_id) ==
    Returned(
        [d EXCEPT !.matches =
            Append(@, [league_id |-> league_id,
                       home_team |-> home_team,
                       away_team |-> away_team,
                       commence_time |-> isoformat(commence_time),
                       status |-> "upcoming",
                       external_id |-> external_id])],
        Len(d.matches) + 1)

\* get_or_create_match that puts the fixture it finds back to 'upcoming'
get_or_create_match_reopening(d, league_id, home_team, away_team, commence_time, external_id) ==
    LET iso == isoformat(commence_time)
        found == {i \in 1..Len(d.matches) :
                     /\ d.matches[i].home_team = home_team
                     /\ d.matches[i].away_team = away_team
                     /\ d.matches[i].commence_time = iso}
    IN  IF found # {}
        THEN Returned([d EXCEPT !.matches[Min(found)].status = "upcoming"], Min(found))
        ELSE create_match(d, league_id, home_team, away_team, commence_time, external_id)

get_or_create_match(d, league_id, home_team, away_team, commence_time, external_id) ==
    LET iso == isoformat(commence_time)
        found == {i \in 1..Len(d.matches) :
                     /\ d.matches[i].home_team = home_team
                     /\ d.matches[i].away_team = away_team
                     /\ d.matches[i].commence_time = iso}
    IN  IF found # {}
        THEN LET id == Min(found)
             IN  Returned(
                     IF external_id # None /\ d.matches[id].external_id = None
                     THEN [d EXCEPT !.matches[id].external_id = external_id]
                     ELSE d,
                     id)
        ELSE Returned(
                 [d EXCEPT !.matches =
                     Append(@, [league_id |-> league_id,
                                home_team |-> home_team,
                                away_team |-> away_team,
                                commence_time |-> iso,
                                status |-> "upcoming",
                                external_id |-> external_id])],
                 Len(d.matches) + 1)

\* insert_result without its UPDATE of the match
leave_status(d, match_id) == d

\* UPDATE matches SET status = 'completed' WHERE id = ?
set_completed(d, match_id) ==
    [d EXCEPT !.matches =
        [i \in 1..Len(@) |-> IF i = match_id THEN [@[i] EXCEPT !.status = "completed"]
                             ELSE @[i]]]

insert_odds(d, match_id, bookmaker_id, home_win, draw, away_win, source, t) ==
    Returned(
        [d EXCEPT !.odds =
            Append(@, [match_id |-> match_id, bookmaker_id |-> bookmaker_id,
                       home_win |-> home_win, draw |-> draw, away_win |-> away_win,
                       source |-> source, scraped_at |-> t])],
        Len(d.odds) + 1)

\* 0.001 in thousandths
tolerance == 1

\* the comparison of odds_changed against the row the query returned
row_changed(row, home_win, draw, away_win) ==
    \/ abs(row.home_win - home_win) > tolerance
    \/ (draw # None /\ row.draw # None /\ abs(row.draw[1] - draw[1]) > tolerance)
    \/ abs(row.away_win - away_win) > tolerance

\* the rows `ORDER BY scraped_at DESC LIMIT 1` may return: scraped_at has a
\* resolution of one second, and among the rows of the same latest second
\* the query plan decides which one comes first
latest_rows(d, match_id, bookmaker_id) ==
    LET mine == {i \in 1..Len(d.odds) :
                    /\ d.odds[i].match_id = match_id
                    /\ d.odds[i].bookmaker_id = bookmaker_id}
    IN  {i \in mine : \A j \in mine : d.odds[j].scraped_at <= d.odds[i].scraped_at}

\* the set of values odds_changed can return
odds_changed(d, match_id, bookmaker_id, home_win, draw, away_win) ==
    IF latest_rows(d, match_id, bookmaker_id) = {} THEN {TRUE}
    ELSE {row_changed(d.odds[i], home_win, draw, away_win) :
             i \in latest_rows(d, match_id, bookmaker_id)}

\* outcome_of with `>=` for `>`: a draw is reported as a home win
outcome_of_ties_home(home_score, away_score) ==
    IF home_score >= away_score THEN "home"
    ELSE IF away_score > home_score THEN "away"
    ELSE "draw"

outcome_of(home_score, away_score) ==
    IF home_score > away_score THEN "home"
    ELSE IF away_score > home_score THEN "away"
    ELSE "draw"

\* replace_result on a table where every row conflicts with the new one:
\* the new row takes the place of the first row
replace_first_result(rows, row) ==
    IF Len(rows) = 0 THEN <<row>> ELSE [rows EXCEPT ![1] = row]

\* replace_result as a plain INSERT into a table without the UNIQUE column
append_result(rows, row) == Append(rows, row)

\* INSERT OR REPLACE: results.match_id is UNIQUE, so the rows of the match
\* are deleted before the new row is inserted
replace_result(rows, row) == Append(delete_conflicting(rows, row.match_id), row)

\* insert_result that also clears the odds history of the match it closes
insert_result_purging_odds(d, match_id, home_score, away_score, source) ==
    LET row == [match_id |-> match_id, home_score |-> home_score,
                away_score |-> away_score,
                outcome |-> outcome_of(home_score, away_score),
                source |-> source]
        d1 == [d EXCEPT !.results = replace_result(@, row),
                        !.odds = SelectSeq(@, LAMBDA o : o.match_id # match_id)]
    IN  Returned(set_completed(d1, match_id), Len(d1.results))

insert_result(d, match_id, home_score, away_score, source) ==
    LET row == [match_id |-> match_id, home_score |-> home_score,
                away_score |-> away_score,
                outcome |-> outcome_of(home_score, away_score),
                source |-> source]
        d1 == [d EXCEPT !.results = replace_result(@, row)]
    IN  Returned(set_completed(d1, match_id), Len(d1.results))

----------------------------------------------------------------------------
(* float values.  A finite float is the fraction n/d in lowest terms with  *)
(* d > 0 (the tokens drawn below stay where double arithmetic agrees with  *)
(* the fraction to well below a thousandth); nan and the infinities are    *)
(* values of their own, -inf being inf with n = -1.                        *)

RECURSIVE gcd(_, _)
gcd(a, b) == IF b = 0 THEN a ELSE gcd(b, a % b)

Fraction(n, d) ==
    LET g == gcd(abs(n), abs(d))
        sgn == IF d < 0 THEN -1 ELSE 1
    IN  [kind |-> "finite", n |-> sgn * (n \div g), d |-> sgn * (d \div g)]

nan == [kind |-> "nan", n |-> 0, d |-> 1]

inf == [kind |-> "inf", n |-> 1, d |-> 1]

\* x + y
float_add(x, y) ==
    IF x.kind = "nan" \/ y.kind = "nan" THEN nan
    ELSE IF x.kind = "inf" THEN (IF y.kind = "inf" /\ y.n # x.n THEN nan ELSE x)
    ELSE IF y.kind = "inf" THEN y
    ELSE Fraction(x.n * y.d + y.n * x.d, x.d * y.d)

\* x / y: the quotient, or ZeroDivisionError when y is zero
float_truediv(x, y) ==
    IF y.kind = "finite" /\ y.n = 0 THEN [exc |-> "ZeroDivisionError", value |-> nan]
    ELSE [exc |-> "",
          value |->
              IF x.kind = "nan" \/ y.kind = "nan" THEN nan
              ELSE IF x.kind = "inf"
                   THEN (IF y.kind = "inf" THEN nan
                         ELSE [inf EXCEPT !.n = IF (x.n < 0) = (y.n < 0) THEN 1 ELSE -1])
              ELSE IF y.kind = "inf" THEN Fraction(0, 1)
              ELSE Fraction(x.n * y.d, x.d * y.n)]

\* x >= y (False when either is nan)
float_ge(x, y) ==
    /\ x.kind # "nan"
    /\ y.kind # "nan"
    /\ IF x.kind = "inf" THEN (x.n > 0 \/ (y.kind = "inf" /\ y.n < 0))
       ELSE IF y.kind = "inf" THEN y.n < 0
       ELSE x.n * y.d >= y.n * x.d

\* x < y (False when either is nan)
float_lt(x, y) == x.kind # "nan" /\ y.kind # "nan" /\ ~float_ge(x, y)

----------------------------------------------------------------------------
(* float(str) *)

\* a digitpart: digits, with single underscores allowed between two digits
is_digitpart(s) ==
    LET is_digit(i) == \E k \in 1..Len(DIGITS) : SubSeq(DIGITS, k, k) = SubSeq(s, i, i)
    IN  /\ Len(s) > 0
        /\ \A i \in 1..Len(s) :
              \/ is_digit(i)
              \/ /\ SubSeq(s, i, i) = "_"
                 /\ 1 < i
                 /\ i < Len(s)
                 /\ is_digit(i - 1)
                 /\ is_digit(i + 1)

\* the value of a digitpart
RECURSIVE digits_value(_)
digits_value(s) ==
    IF Len(s) = 0 THEN 0
    ELSE IF SubSeq(s, Len(s), Len(s)) = "_" THEN digits_value(SubSeq(s, 1, Len(s) - 1))
    ELSE 10 * digits_value(SubSeq(s, 1, Len(s) - 1))
             + (CHOOSE k \in 0..9 : SubSeq(DIGITS, k + 1, k + 1) = SubSeq(s, Len(s), Len(s)))

RECURSIVE pow10(_)
pow10(k) == IF k = 0 THEN 1 ELSE 10 * pow10(k - 1)

\* s.find(c) + 1: the position of the first c in s, 0 when there is none
find(s, c) ==
    IF \E i \in 1..Len(s) : SubSeq(s, i, i) = c
    THEN Min({i \in 1..Len(s) : SubSeq(s, i, i) = c})
    ELSE 0

RECURSIVE upper(_)
upper(s) ==
    IF Len(s) = 0 THEN ""
    ELSE (IF \E i \in 1..Len(LOWER) : SubSeq(LOWER, i, i) = SubSeq(s, 1, 1)
          THEN LET i == CHOOSE j \in 1..Len(LOWER) : SubSeq(LOWER, j, j) = SubSeq(s, 1, 1)
               IN  SubSeq(UPPER, i, i)
          ELSE SubSeq(s, 1, 1))
             \o upper(SubSeq(s, 2, Len(s)))

\* s without its leading sign
unsigned(s) ==
    IF Len(s) > 0 /\ SubSeq(s, 1, 1) \in {"+", "-"} THEN SubSeq(s, 2, Len(s)) ELSE s

\* [digitpart] "." digitpart | digitpart ["."], without sign or exponent
is_pointfloat(s) ==
    LET dot == find(s, ".")
        whole == IF dot = 0 THEN s ELSE SubSeq(s, 1, dot - 1)
        frac == IF dot = 0 THEN "" ELSE SubSeq(s, dot + 1, Len(s))
    IN  /\ whole = "" \/ is_digitpart(whole)
        /\ frac = "" \/ is_digitpart(frac)
        /\ whole # "" \/ frac # ""

pointfloat_value(s) ==
    LET dot == find(s, ".")
        whole == IF dot = 0 THEN s ELSE SubSeq(s, 1, dot - 1)
        frac == IF dot = 0 THEN "" ELSE SubSeq(s, dot + 1, Len(s))
        places == Cardinality({i \in 1..Len(frac) : SubSeq(frac, i, i) # "_"})
    IN  Fraction(digits_value(whole) * pow10(places) + digits_value(frac), pow10(places))

\* the literal after its sign, in upper case: a pointfloat with an optional
\* exponent "E" [sign] digitpart
is_number(s) ==
    LET e == find(s, "E")
    IN  IF e = 0 THEN is_pointfloat(s)
        ELSE /\ is_pointfloat(SubSeq(s, 1, e - 1))
             /\ is_digitpart(unsigned(SubSeq(s, e + 1, Len(s))))

number_value(s) ==
    LET e == find(s, "E")
        mantissa == pointfloat_value(IF e = 0 THEN s ELSE SubSeq(s, 1, e - 1))
        exponent == IF e = 0 THEN "" ELSE SubSeq(s, e + 1, Len(s))
        scale == pow10(digits_value(unsigned(exponent)))
    IN  IF Len(exponent) > 0 /\ SubSeq(exponent, 1, 1) = "-"
        THEN Fraction(mantissa.n, mantissa.d * scale)
        ELSE Fraction(mantissa.n * scale, mantissa.d)

\* float(string): surrounding whitespace and letter case are ignored; a sign,
\* then "inf", "infinity", "nan" or a number; ValueError otherwise
float(string) ==
    LET s == upper(strip(string))
        body == unsigned(s)
        magnitude == IF body \in {"INF", "INFINITY"} THEN inf
                     ELSE IF body = "NAN" THEN nan
                     ELSE number_value(body)
    IN  IF body \in {"INF", "INFINITY", "NAN"} \/ is_number(body)
        THEN [exc |-> "",
              value |-> IF Len(s) > 0 /\ SubSeq(s, 1, 1) = "-"
                        THEN [magnitude EXCEPT !.n = -@] ELSE magnitude]
        ELSE [exc |-> "ValueError", value |-> nan]

----------------------------------------------------------------------------
(* The odds normalizer, src/src/oddschecker.py *)

\* odds_str.split("/")
RECURSIVE split(_, _)
split(s, sep) ==
    LET i == find(s, sep)
    IN  IF i = 0 THEN <<s>>
        ELSE <<SubSeq(s, 1, i - 1)>> \o split(SubSeq(s, i + 1, Len(s)), sep)

\* a call that returned value
returned(value) == [raised |-> FALSE, exc |-> "", value |-> value]

\* try: return body; except caught: return None
try_except(body, caught) ==
    IF body.exc = "" THEN returned(Some(body.value))
    ELSE IF body.exc \in caught THEN returned(None)
    ELSE [raised |-> TRUE, exc |-> body.exc, value |-> None]

\* _parse_fractional_odds(odds_str), odds_str a string or None
parse_fractional_odds(token) ==
    IF token = None \/ token = Some("") THEN returned(None)
    ELSE LET odds_str == upper(strip(token[1]))
             parts == split(odds_str, "/")
             \* num, den = odds_str.split("/"); (float(num) / float(den)) + 1
             quotient == float_truediv(float(parts[1]).value, float(parts[2]).value)
             fraction_plus_one ==
                 IF Len(parts) # 2 THEN [exc |-> "ValueError", value |-> nan]
                 ELSE IF float(parts[1]).exc # "" THEN float(parts[1])
                 ELSE IF float(parts[2]).exc # "" THEN float(parts[2])
                 ELSE IF quotient.exc # "" THEN quotient
                 ELSE [exc |-> "", value |-> float_add(quotient.value, Fraction(1, 1))]
         IN  IF odds_str \in {"SP", "-", ""} THEN returned(None)
             ELSE IF odds_str \in {"EVS", "EVENS", "EVN"} THEN returned(Some(Fraction(2, 1)))
             ELSE IF contains("/", odds_str)
                  THEN try_except(fraction_plus_one, {"ValueError", "ZeroDivisionError"})
             ELSE try_except(float(odds_str), {"ValueError"})

----------------------------------------------------------------------------
(* The quality filter and the aggregator, src/src/export_json.py.  A price *)
(* read from the odds table is None (NULL) or Some(float).                 *)

MIN_BOOKMAKERS == 5

MIN_OVERROUND == Fraction(1, 1)

MAX_OVERROUND == Fraction(3, 2)

\* bool(price): None and 0.0 are false
truth(price) == price # None /\ ~(price[1].kind = "finite" /\ price[1].n = 0)

\* min(*values): the first smallest
RECURSIVE min_of(_)
min_of(values) ==
    IF Len(values) = 1 THEN values[1]
    ELSE LET rest == min_of(SubSeq(values, 1, Len(values) - 1))
         IN  IF float_lt(values[Len(values)], rest) THEN values[Len(values)] ELSE rest

\* max(values): the first largest
RECURSIVE max_of(_)
max_of(values) ==
    IF Len(values) = 1 THEN values[1]
    ELSE LET rest == max_of(SubSeq(values, 1, Len(values) - 1))
         IN  IF float_lt(rest, values[Len(values)]) THEN values[Len(values)] ELSE rest

\* 1 / x for x not zero
reciprocal(x) == float_truediv(Fraction(1, 1), x).value

\* (1/home) + (1/draw) + (1/away)
overround_of(home, draw, away) ==
    float_add(float_add(reciprocal(home), reciprocal(draw)), reciprocal(away))

\* the mutation: an overround equal to a bound is rejected
is_valid_odds_row_open_range(home, draw, away) ==
    IF ~(truth(home) /\ truth(draw) /\ truth(away)) THEN FALSE
    ELSE IF home = draw /\ draw = away THEN FALSE
    ELSE IF float_lt(min_of(<<home[1], draw[1], away[1]>>), Fraction(51, 50)) THEN FALSE
    ELSE LET overround == overround_of(home[1], draw[1], away[1])
         IN  ~(float_ge(MIN_OVERROUND, overround) \/ float_ge(overround, MAX_OVERROUND))

is_valid_odds_row(home, draw, away) ==
    IF ~(truth(home) /\ truth(draw) /\ truth(away)) THEN FALSE
    ELSE IF home = draw /\ draw = away THEN FALSE
    ELSE IF float_lt(min_of(<<home[1], draw[1], away[1]>>), Fraction(51, 50)) THEN FALSE
    ELSE LET overround == overround_of(home[1], draw[1], away[1])
         IN  ~(float_lt(overround, MIN_OVERROUND) \/ float_lt(MAX_OVERROUND, overround))

\* the mutation: a later row of a name always replaces the row kept
RECURSIVE group_by_name_keep_last(_, _)
group_by_name_keep_last(by_name, odds_rows) ==
    IF Len(odds_rows) = 0 THEN by_name
    ELSE LET row == Head(odds_rows)
             at == IF \E i \in 1..Len(by_name) : by_name[i].bookmaker = row.bookmaker
                   THEN CHOOSE i \in 1..Len(by_name) : by_name[i].bookmaker = row.bookmaker
                   ELSE 0
         IN  IF ~(truth(row.home) /\ truth(row.draw) /\ truth(row.away))
             THEN group_by_name_keep_last(by_name, Tail(odds_rows))
             ELSE IF at = 0
             THEN group_by_name_keep_last(Append(by_name, row), Tail(odds_rows))
             ELSE group_by_name_keep_last([by_name EXCEPT ![at] = row], Tail(odds_rows))

\* the loop of deduplicate_bookmakers: by_name is the dict in insertion
\* order of its keys, as the sequence of its values; by_name[at] is the
\* value under the row's name, and the 'overround' it carries is that of
\* the row it was made from
RECURSIVE group_by_name(_, _)
group_by_name(by_name, odds_rows) ==
    IF Len(odds_rows) = 0 THEN by_name
    ELSE LET row == Head(odds_rows)
             at == IF \E i \in 1..Len(by_name) : by_name[i].bookmaker = row.bookmaker
                   THEN CHOOSE i \in 1..Len(by_name) : by_name[i].bookmaker = row.bookmaker
                   ELSE 0
             overround == overround_of(row.home[1], row.draw[1], row.away[1])
         IN  IF ~(truth(row.home) /\ truth(row.draw) /\ truth(row.away))
             THEN group_by_name(by_name, Tail(odds_rows))
             ELSE IF at = 0
             THEN group_by_name(Append(by_name, row), Tail(odds_rows))
             ELSE IF float_lt(overround,
                              overround_of(by_name[at].home[1], by_name[at].draw[1],
                                           by_name[at].away[1]))
             THEN group_by_name([by_name EXCEPT ![at] = row], Tail(odds_rows))
             ELSE group_by_name(by_name, Tail(odds_rows))

\* the rows of by_name.values() without their 'overround'
deduplicate_bookmakers(odds_rows) == group_by_name(<<>>, odds_rows)

\* round(x, ndigits) of a finite x: the nearest multiple of 10^-ndigits, a
\* tie going to the even one (the prices drawn below have no tie that a
\* double cannot hold exactly)
round(x, ndigits) ==
    LET q == x.n * pow10(ndigits)
        up == (2 * q + x.d) \div (2 * x.d)
        tie == (2 * q + x.d) % (2 * x.d) = 0
    IN  Fraction(IF tie /\ up % 2 = 1 THEN up - 1 ELSE up, pow10(ndigits))

\* statistics.mean(values): sum(values) / len(values)
mean(values) ==
    LET RECURSIVE sum(_)
        sum(rest) == IF Len(rest) = 0 THEN Fraction(0, 1)
                     ELSE float_add(Head(rest), sum(Tail(rest)))
    IN  float_truediv(sum(values), Fraction(Len(values), 1)).value

\* sorted(values); rank(i) is the number of values smaller than values[i],
\* or equal and before it
sorted(values) ==
    LET rank(i) == Cardinality({j \in 1..Len(values) :
                                   \/ float_lt(values[j], values[i])
                                   \/ (values[j] = values[i] /\ j < i)})
    IN  [k \in 1..Len(values) |-> values[CHOOSE i \in 1..Len(values) : rank(i) = k - 1]]

\* statistics.median(values)
median(values) ==
    LET data == sorted(values)
        n == Len(data)
    IN  IF n % 2 = 1 THEN data[(n + 1) \div 2]
        ELSE float_truediv(float_add(data[n \div 2], data[(n \div 2) + 1]), Fraction(2, 1)).value

\* the mutation: the last index of the maximum
last_index(odds_list, value) ==
    CHOOSE i \in 1..Len(odds_list) :
        /\ odds_list[i] = value
        /\ \A j \in 1..Len(odds_list) : odds_list[j] = value => j <= i

\* odds_list.index(value): the first index of value
index(odds_list, value) == Min({i \in 1..Len(odds_list) : odds_list[i] = value})

\* [o for o in odds_list if o and o > 0]
RECURSIVE positive(_)
positive(odds_list) ==
    IF Len(odds_list) = 0 THEN <<>>
    ELSE (IF float_lt(Fraction(0, 1), Head(odds_list)) THEN <<Head(odds_list)>> ELSE <<>>)
             \o positive(Tail(odds_list))

\* calculate_probability_stats(odds_list, bookmaker_list): None or the dict
calculate_probability_stats(odds_list, bookmaker_list) ==
    IF Len(odds_list) = 0 \/ Len(positive(odds_list)) = 0 THEN None
    ELSE LET valid_odds == positive(odds_list)
             median_odds == median(valid_odds)
             mean_odds == mean(valid_odds)
             best_idx == index(odds_list, max_of(odds_list))
             best_odds == odds_list[best_idx]
         IN  Some([median_odds |-> round(median_odds, 2),
                   median_prob |-> round(reciprocal(median_odds), 4),
                   mean_odds |-> round(mean_odds, 2),
                   mean_prob |-> round(reciprocal(mean_odds), 4),
                   best_odds |-> round(best_odds, 2),
                   best_prob |-> round(reciprocal(best_odds), 4),
                   best_bookmaker |-> IF best_idx <= Len(bookmaker_list)
                                      THEN Some(bookmaker_list[best_idx]) ELSE None])

\* [o for o in odds_raw if is_valid_odds_row(o.home_win, o.draw, o.away_win)]
RECURSIVE valid_rows(_)
valid_rows(odds_raw) ==
    IF Len(odds_raw) = 0 THEN <<>>
    ELSE (IF is_valid_odds_row(Head(odds_raw).home, Head(odds_raw).draw, Head(odds_raw).away)
          THEN <<Head(odds_raw)>> ELSE <<>>)
             \o valid_rows(Tail(odds_raw))

\* [o[column] for o in odds_list if o[column]] and the bookmakers beside it
RECURSIVE column_odds(_, _)
column_odds(odds_list, column) ==
    IF Len(odds_list) = 0 THEN <<>>
    ELSE (IF truth(Head(odds_list)[column]) THEN <<Head(odds_list)[column][1]>> ELSE <<>>)
             \o column_odds(Tail(odds_list), column)

RECURSIVE column_bookmakers(_, _)
column_bookmakers(odds_list, column) ==
    IF Len(odds_list) = 0 THEN <<>>
    ELSE (IF truth(Head(odds_list)[column]) THEN <<Head(odds_list).bookmaker>> ELSE <<>>)
             \o column_bookmakers(Tail(odds_list), column)

\* the body of either loop of export_data for the rows of one fixture: None
\* when the fixture is skipped, else the entry appended to the export
export_entry(odds_raw) ==
    LET odds_list == deduplicate_bookmakers(valid_rows(odds_raw))
    IN  IF Len(odds_list) <= MIN_BOOKMAKERS THEN None
        ELSE Some([bookmaker_count |-> Len(odds_list),
                   odds |-> odds_list,
                   probability |->
                       [column \in {"home", "draw", "away"} |->
                           calculate_probability_stats(column_odds(odds_list, column),
                                                       column_bookmakers(odds_list, column))]])

\* export_csv_for_website's query for the rows of one fixture:
\* COUNT(DISTINCT bookmaker_id) ... HAVING bookmaker_count > 5
csv_entry(odds_raw) ==
    LET bookmaker_count == Cardinality({odds_raw[i].bookmaker_key : i \in 1..Len(odds_raw)})
    IN  IF bookmaker_count > 5 THEN Some([bookmaker_count |-> bookmaker_count]) ELSE None

----------------------------------------------------------------------------
(* Configuration, src/src/config.py (two of the 25 leagues) *)

LEAGUES ==
    ("soccer_epl" :> [name |-> "English Premier League", country |-> "England"])
    @@ ("soccer_spain_la_liga" :> [name |-> "La Liga", country |-> "Spain"])

\* league_config.get("name", league_key) and league_config.get("country")
league_name(league_key) ==
    IF league_key \in DOMAIN LEAGUES THEN LEAGUES[league_key].name ELSE league_key

league_country(league_key) ==
    IF league_key \in DOMAIN LEAGUES THEN Some(LEAGUES[league_key].country) ELSE None

----------------------------------------------------------------------------
(* One unit of a collection run, src/src/results.py.  A unit's outcome is  *)
(* the database it leaves (every helper has committed its write), what it  *)
(* added to the tally, and whether its body raised.  fault names the       *)
(* helper whose statement the storage engine fails (sqlite3.Error), if any *)

\* for odds_info in odds_list: ...   n counts the snapshots inserted
RECURSIVE store_odds_list(_, _, _, _, _, _, _)
store_odds_list(d, match_id, odds_list, source, fault, t, n) ==
    IF Len(odds_list) = 0 THEN {[db |-> d, n |-> n, raised |-> FALSE]}
    ELSE LET odds_info == Head(odds_list)
             b == IF fault = "bookmaker" THEN Raised(d)
                  ELSE get_or_create_bookmaker(d, odds_info.bookmaker_key,
                                               odds_info.bookmaker_name)
         IN  IF b.raised THEN {[db |-> b.db, n |-> n, raised |-> TRUE]}
             ELSE UNION {
                 IF changed
                 THEN IF fault = "odds"
                      THEN {[db |-> b.db, n |-> n, raised |-> TRUE]}
                      ELSE store_odds_list(
                               insert_odds(b.db, match_id, b.id, odds_info.home_win,
                                           odds_info.draw, odds_info.away_win,
                                           source, t).db,
                               match_id, Tail(odds_list), source, "none", t, n + 1)
                 ELSE store_odds_list(b.db, match_id, Tail(odds_list), source, fault, t, n)
                 : changed \in odds_changed(b.db, match_id, b.id, odds_info.home_win,
                                            odds_info.draw, odds_info.away_win) }

\* the try body of collect_odds_from_api (source "odds_api", external_id from
\* match_info) and of collect_odds_from_oddschecker (source "oddschecker",
\* no external_id)
collect_odds_unit(d, league_key, match_info, external_id, odds_list, source, fault, t) ==
    LET l == IF fault = "league" THEN Raised(d)
             ELSE get_or_create_league(d, league_key, league_name(league_key),
                                       league_country(league_key))
    IN  IF l.raised
        THEN {[db |-> l.db, match_id |-> 0, matches |-> 0, odds_snapshots |-> 0,
               raised |-> TRUE]}
        ELSE LET m == IF fault = "match" THEN Raised(l.db)
                      ELSE get_or_create_match(l.db, l.id, match_info.home_team,
                                               match_info.away_team,
                                               match_info.commence_time, external_id)
             IN  IF m.raised
                 THEN {[db |-> m.db, match_id |-> 0, matches |-> 0,
                        odds_snapshots |-> 0, raised |-> TRUE]}
                 ELSE {[db |-> o.db, match_id |-> m.id, matches |-> 1,
                        odds_snapshots |-> o.n, raised |-> o.raised]
                       : o \in store_odds_list(m.db, m.id, odds_list, source, fault, t, 0)}

\* the try body of collect_results_from_api
collect_results_unit(d, league_key, score_info, fault) ==
    LET l == IF fault = "league" THEN Raised(d)
             ELSE get_or_create_league(d, league_key, league_name(league_key),
                                       league_country(league_key))
    IN  IF l.raised
        THEN [db |-> l.db, match_id |-> 0, results |-> 0, raised |-> TRUE]
        ELSE LET m == IF fault = "match" THEN Raised(l.db)
                      ELSE get_or_create_match(l.db, l.id, score_info.home_team,
                                               score_info.away_team,
                                               score_info.commence_time,
                                               score_info.external_id)
             IN  IF m.raised
                 THEN [db |-> m.db, match_id |-> 0, results |-> 0, raised |-> TRUE]
                 ELSE LET r == IF fault = "result" THEN Raised(m.db)
                               ELSE insert_result(m.db, m.id, score_info.home_score,
                                                  score_info.away_score, "odds_api")
                      IN  [db |-> r.db, match_id |-> m.id,
                           results |-> IF r.raised THEN 0 ELSE 1, raised |-> r.raised]

\* except_unit that lets the exception leave the run
reraise_unit(run, s) == [pc |-> "raised", stats |-> s]

\* except Exception as e: logger.error(...); stats["errors"] += 1
\* The loop goes on with the next unit.
except_unit(run, s) == [pc |-> run, stats |-> [s EXCEPT !.errors = @ + 1]]

----------------------------------------------------------------------------
(* What the fetchers and the operator can supply *)

LeagueKeys == {"soccer_epl"}

\* 2026-01-17T15:00 and 2026-01-24T15:00
Jan17 == 16 * 24 + 15

Jan24 == 23 * 24 + 15

Event(home_team, away_team, h, aware, external_id) ==
    [home_team |-> home_team, away_team |-> away_team,
     commence_time |-> [h |-> h, aware |-> aware], external_id |-> external_id]

Score(event, home_score, away_score) ==
    [home_team |-> event.home_team, away_team |-> event.away_team,
     commence_time |-> event.commence_time, external_id |-> event.external_id,
     home_score |-> home_score, away_score |-> away_score]

Report(home_team, away_team, home_score, away_score) ==
    [home_team |-> home_team, away_team |-> away_team,
     home_score |-> home_score, away_score |-> away_score]

Odds(key, name, home_win, draw, away_win) ==
    [bookmaker_key |-> key, bookmaker_name |-> name,
     home_win |-> home_win, draw |-> draw, away_win |-> away_win]

Derby == Event("Manchester United", "Manchester City", Jan17, TRUE, Some("evt1"))

\* match_info of OddsAPIClient.iter_odds
ApiEvents ==
    {Derby,
     Event("Manchester United", "Manchester City", Jan24, TRUE, Some("evt2")),
     Event("Man United", "Man City", Jan17, TRUE, Some("evt3"))}

\* match_info of OddscheckerScraper._parse_match_row: no UTC offset, no id
ScrapedEvents ==
    {Event("Manchester United", "Manchester City", Jan17, FALSE, None)}

\* score_info of OddsAPIClient.iter_scores
ScoreInfos == {Score(Derby, 3, 3), Score(Derby, 0, 1)}

\* the entries of results_data
Reports ==
    {Report("Manchester United", "Manchester City", 2, 0),
     Report("Manchester United", "Manchester City", 0, 1),
     Report("Manchester United", "Arsenal", 2, 0)}

ResultsData == UNION {[1..n -> Reports] : n \in 0..MaxReports}

\* the odds_info iter_odds builds from one bookmaker of an event: the home
\* and away prices are looked up under the event's team names and default
\* to 0, the draw price under "Draw" and defaults to None
h2h_odds_info(event, key, title, outcomes) ==
    LET outcomes_get(name, default) ==
            IF name \in DOMAIN outcomes THEN outcomes[name] ELSE default
    IN  Odds(key, title,
             outcomes_get(event.home_team, 0),
             IF "Draw" \in DOMAIN outcomes THEN Some(outcomes["Draw"]) ELSE None,
             outcomes_get(event.away_team, 0))

\* odds_info of the API: 2.000/3.000/4.000, two neighbours of it, the same
\* without a draw price, a bookmaker entry whose title is null, and a
\* bookmaker of the Derby event whose market names the home side "Man Utd"
ApiOdds ==
    {Odds("bet365", Some("Bet365"), 2000, Some(3000), 4000),
     Odds("bet365", Some("Bet365"), 2001, Some(3000), 4000),
     Odds("bet365", Some("Bet365"), 2002, Some(3000), 4000),
     Odds("bet365", Some("Bet365"), 2000, None, 4000),
     Odds("unibet_eu", None, 2000, Some(3000), 4000),
     h2h_odds_info(Derby, "bet365", Some("Bet365"),
                   ("Man Utd" :> 2000) @@ ("Draw" :> 3000) @@ ("Manchester City" :> 4000))}

\* odds_info of the scraper: ODDSCHECKER_BOOKMAKERS names every bookmaker
ScrapedOdds == {Odds("bet365", Some("Bet365"), 2000, Some(3000), 4000)}

\* the odds lists of one event: at most two entries, a bookmaker listed once
OddsLists(S) ==
    {<<>>} \cup [1..1 -> S]
        \cup {l \in [1..2 -> S] : l[1].bookmaker_key # l[2].bookmaker_key}

CollectionRuns == {"api_odds", "oddschecker", "api_results"}

----------------------------------------------------------------------------
(* update_from_known_results, src/src/espn_results.py *)

\* the team names a report or a stored fixture can carry
TeamNames ==
    {e.home_team : e \in ApiEvents \cup ScrapedEvents}
        \cup {e.away_team : e \in ApiEvents \cup ScrapedEvents}
        \cup {r.home_team : r \in Reports} \cup {r.away_team : r \in Reports}

\* teams_match, evaluated once for every pair of those names
teams_match_of == [espn_name \in TeamNames, db_name \in TeamNames |->
                      teams_match(espn_name, db_name)]

\* matching that tests the home name only
matching_home_only(d, result) ==
    {i \in 1..Len(d.matches) :
        /\ d.matches[i].status = "upcoming"
        /\ teams_match_of[result.home_team, d.matches[i].home_team]}

\* the rows of the SELECT ... WHERE status = 'upcoming' that pass both
\* teams_match tests
matching(d, result) ==
    {i \in 1..Len(d.matches) :
        /\ d.matches[i].status = "upcoming"
        /\ teams_match_of[result.home_team, d.matches[i].home_team]
        /\ teams_match_of[result.away_team, d.matches[i].away_team]}

\* the ids the `for match in matches` loop can break on: the first matching
\* row in ORDER BY commence_time DESC; rows with the same commence_time come
\* in an order the query does not fix
first_match(d, result) ==
    {i \in matching(d, result) :
        \A j \in matching(d, result) :
            ~text_less(d.matches[i].commence_time, d.matches[j].commence_time)}

\* SELECT id FROM results WHERE match_id = ?
existing(d, match_id) == \E k \in 1..Len(d.results) : d.results[k].match_id = match_id

not_found_entry(result) == result.home_team \o " vs " \o result.away_team

----------------------------------------------------------------------------
(* History *)

NoStep ==
    [op |-> "none", run |-> "none", raised |-> FALSE, match_id |-> 0,
     key |-> None, outcome |-> "", replay |-> FALSE]

NoHistory ==
    [cur_list |-> <<>>, rerun |-> FALSE, prev_db |-> EmptyDb,
     applied |-> {}, applied_now |-> {}, last_insert |-> {}, ids |-> {},
     raised |-> 0]

\* the latest insert_result call of each fixture
note_insert(S, match_id, home_score, away_score) ==
    {x \in S : x.match_id # match_id}
        \cup {[match_id |-> match_id, home_score |-> home_score, away_score |-> away_score]}

key_of(info) == <<info.home_team, info.away_team, info.commence_time>>

----------------------------------------------------------------------------
(* Steps *)

Init ==
    /\ db = EmptyDb
    /\ now = 0
    /\ pc = "idle"
    /\ queue = <<>>
    /\ stats = <<>>
    /\ units = 0
    /\ last = NoStep
    /\ hist = NoHistory

\* a second of wall-clock time passes
Tick ==
    /\ now < MaxClock
    /\ now' = now + 1
    /\ UNCHANGED <<db, pc, queue, stats, units, last, hist>>

\* update_from_known_results(results_data): conn = get_connection(); stats = ...
StartKnownResults ==
    /\ pc = "idle"
    /\ \E results_data \in ResultsData :
          /\ queue' = results_data
          /\ hist' = [hist EXCEPT !.cur_list = results_data]
    /\ pc' = "known_results"
    /\ stats' = [matched |-> 0, updated |-> 0, not_found |-> <<>>]
    /\ last' = [NoStep EXCEPT !.op = "start", !.run = "known_results"]
    /\ UNCHANGED <<db, now, units>>

\* one iteration of `for result in results_data`
KnownResultsStep ==
    /\ pc = "known_results"
    /\ Len(queue) > 0
    /\ LET result == Head(queue)
           replay == \E a \in hist.applied :
                        a.result = result /\ existing(db, a.match_id)
           step == [NoStep EXCEPT !.op = "report", !.run = "known_results",
                                  !.replay = replay]
       IN  IF first_match(db, result) = {}
           THEN /\ stats' = [stats EXCEPT !.not_found = Append(@, not_found_entry(result))]
                /\ last' = [step EXCEPT !.outcome = "not_found"]
                /\ UNCHANGED <<db, hist>>
           ELSE \E match_id \in first_match(db, result) :
                   IF ~existing(db, match_id)
                   THEN /\ db' = insert_result(db, match_id, result.home_score,
                                               result.away_score, "espn").db
                        /\ stats' = [stats EXCEPT !.matched = @ + 1, !.updated = @ + 1]
                        /\ last' = [step EXCEPT !.match_id = match_id,
                                                !.outcome = "updated"]
                        /\ hist' = [hist EXCEPT
                               !.applied_now = @ \cup {[result |-> result, match_id |-> match_id]},
                               !.last_insert = note_insert(@, match_id, result.home_score,
                                                           result.away_score)]
                   ELSE /\ stats' = [stats EXCEPT !.matched = @ + 1]
                        /\ last' = [step EXCEPT !.match_id = match_id,
                                                !.outcome = "skipped"]
                        /\ UNCHANGED <<db, hist>>
    /\ queue' = Tail(queue)
    /\ UNCHANGED <<now, pc, units>>

\* one iteration of `for result in results_data` in which the storage engine
\* fails the INSERT of insert_result (sqlite3.Error): no statement of
\* update_from_known_results catches it, the call ends with the exception
\* and the reports still in the list are never looked at
KnownResultsRaise ==
    /\ pc = "known_results"
    /\ Len(queue) > 0
    /\ \E match_id \in first_match(db, Head(queue)) :
          /\ ~existing(db, match_id)
          /\ last' = [NoStep EXCEPT !.op = "report", !.run = "known_results",
                                    !.raised = TRUE, !.match_id = match_id,
                                    !.outcome = "raised"]
    /\ stats' = [stats EXCEPT !.matched = @ + 1]
    /\ pc' = "raised"
    /\ UNCHANGED <<db, now, queue, units, hist>>

\* conn.close(); return stats
KnownResultsReturn ==
    /\ pc = "known_results"
    /\ Len(queue) = 0
    /\ pc' = "returned"
    /\ hist' = [hist EXCEPT !.applied = @ \cup hist.applied_now, !.applied_now = {}]
    /\ last' = [NoStep EXCEPT !.op = "return", !.run = "known_results"]
    /\ UNCHANGED <<db, now, queue, stats, units>>

\* KnownResultsAgain with the tally of the run before carried over
KnownResultsAgainKeepingTally ==
    /\ pc = "returned"
    /\ last.run = "known_results"
    /\ ~hist.rerun
    /\ pc' = "known_results"
    /\ queue' = hist.cur_list
    /\ hist' = [hist EXCEPT !.rerun = TRUE, !.prev_db = db]
    /\ last' = [NoStep EXCEPT !.op = "start", !.run = "known_results"]
    /\ UNCHANGED <<db, now, units, stats>>

\* the operator calls update_from_known_results again with the list of the
\* run that has just returned
KnownResultsAgain ==
    /\ pc = "returned"
    /\ last.run = "known_results"
    /\ ~hist.rerun
    /\ pc' = "known_results"
    /\ queue' = hist.cur_list
    /\ stats' = [matched |-> 0, updated |-> 0, not_found |-> <<>>]
    /\ hist' = [hist EXCEPT !.rerun = TRUE, !.prev_db = db]
    /\ last' = [NoStep EXCEPT !.op = "start", !.run = "known_results"]
    /\ UNCHANGED <<db, now, units>>

\* the caller has printed the tally; the command ends
Exit ==
    /\ pc = "returned"
    /\ pc' = "idle"
    /\ stats' = <<>>
    /\ units' = 0
    /\ last' = NoStep
    /\ hist' = [hist EXCEPT !.cur_list = <<>>, !.rerun = FALSE, !.prev_db = EmptyDb,
                            !.raised = 0]
    /\ UNCHANGED <<db, now, queue>>

StartCollection(run, tally) ==
    /\ pc = "idle"
    /\ pc' = run
    /\ stats' = tally
    /\ last' = [NoStep EXCEPT !.op = "start", !.run = run]
    /\ UNCHANGED <<db, now, queue, units, hist>>

\* one iteration of the `for league_key, match_info, odds_list in ...` loop of
\* collect_odds_from_api or collect_odds_from_oddschecker
OddsUnit(run, source, Events, Lists, Faults) ==
    /\ pc = run
    /\ units < MaxUnits
    /\ \E league_key \in LeagueKeys, match_info \in Events, odds_list \in Lists,
          fault \in Faults :
          \E out \in collect_odds_unit(db, league_key, match_info,
                                       match_info.external_id, odds_list,
                                       source, fault, now) :
             /\ Len(out.db.matches) <= MaxMatches
             /\ Len(out.db.odds) <= MaxOddsRows
             /\ db' = out.db
             /\ LET s == [stats EXCEPT !.matches = @ + out.matches,
                                       !.odds_snapshots = @ + out.odds_snapshots]
                    e == except_unit(run, s)
                IN  /\ stats' = IF out.raised THEN e.stats ELSE s
                    /\ pc' = IF out.raised THEN e.pc ELSE run
             /\ last' = [NoStep EXCEPT !.op = "unit", !.run = run,
                                       !.raised = out.raised,
                                       !.match_id = out.match_id,
                                       !.key = key_of(match_info)]
             /\ hist' = [hist EXCEPT
                    !.raised = IF out.raised THEN @ + 1 ELSE @,
                    !.ids = IF out.match_id = 0 THEN @
                            ELSE @ \cup {[key |-> key_of(match_info), id |-> out.match_id]}]
    /\ units' = units + 1
    /\ UNCHANGED <<now, queue>>

\* one iteration of the `for league_key, score_info in ...` loop of
\* collect_results_from_api
ResultsUnit(Infos, Faults) ==
    /\ pc = "api_results"
    /\ units < MaxUnits
    /\ \E league_key \in LeagueKeys, score_info \in Infos, fault \in Faults :
          LET out == collect_results_unit(db, league_key, score_info, fault)
              s == [stats EXCEPT !.results = @ + out.results]
              e == except_unit("api_results", s)
          IN  /\ Len(out.db.matches) <= MaxMatches
              /\ db' = out.db
              /\ stats' = IF out.raised THEN e.stats ELSE s
              /\ pc' = IF out.raised THEN e.pc ELSE "api_results"
              /\ last' = [NoStep EXCEPT !.op = "unit", !.run = "api_results",
                                        !.raised = out.raised,
                                        !.match_id = out.match_id,
                                        !.key = key_of(score_info)]
              /\ hist' = [hist EXCEPT
                     !.raised = IF out.raised THEN @ + 1 ELSE @,
                     !.ids = IF out.match_id = 0 THEN @
                             ELSE @ \cup {[key |-> key_of(score_info), id |-> out.match_id]},
                     !.last_insert =
                         IF out.raised THEN @
                         ELSE note_insert(@, out.match_id, score_info.home_score,
                                          score_info.away_score)]
    /\ units' = units + 1
    /\ UNCHANGED <<now, queue>>

\* the fetcher is exhausted: return stats
CollectionReturn ==
    /\ pc \in CollectionRuns
    /\ pc' = "returned"
    /\ last' = [NoStep EXCEPT !.op = "return", !.run = pc]
    /\ UNCHANGED <<db, now, queue, stats, units, hist>>

StartApiOdds ==
    StartCollection("api_odds", [matches |-> 0, odds_snapshots |-> 0, errors |-> 0])

StartOddschecker ==
    StartCollection("oddschecker", [matches |-> 0, odds_snapshots |-> 0, errors |-> 0])

StartApiResults ==
    StartCollection("api_results", [results |-> 0, errors |-> 0])

----------------------------------------------------------------------------
(* Spec: every run of the pipeline.  The API lists no bookmaker here, the  *)
(* scraper one, and no statement fails.                                    *)

ApiOddsUnit == OddsUnit("api_odds", "odds_api", ApiEvents, {<<>>}, {"none"})

OddscheckerUnit ==
    OddsUnit("oddschecker", "oddschecker", ScrapedEvents,
             OddsLists(ScrapedOdds) \ {<<>>}, {"none"})

ApiResultsUnit == ResultsUnit(ScoreInfos, {"none"})

Next ==
    \/ StartKnownResults
    \/ KnownResultsStep
    \/ KnownResultsReturn
    \/ KnownResultsAgain
    \/ StartApiOdds
    \/ ApiOddsUnit
    \/ StartOddschecker
    \/ OddscheckerUnit
    \/ StartApiResults
    \/ ApiResultsUnit
    \/ CollectionReturn
    \/ Exit

Spec == Init /\ [][Next]_vars

----------------------------------------------------------------------------
(* SpecOdds: the odds collectors on one match of each source, with the     *)
(* bookmaker entries of the responses and the clock                        *)

OddsApiOddsUnit ==
    OddsUnit("api_odds", "odds_api", {Derby}, OddsLists(ApiOdds), {"none"})

OddsOddscheckerUnit ==
    OddsUnit("oddschecker", "oddschecker", ScrapedEvents,
             OddsLists(ScrapedOdds) \ {<<>>}, {"none"})

NextOdds ==
    \/ Tick
    \/ StartApiOdds
    \/ OddsApiOddsUnit
    \/ StartOddschecker
    \/ OddsOddscheckerUnit
    \/ CollectionReturn
    \/ Exit

SpecOdds == Init /\ [][NextOdds]_vars

----------------------------------------------------------------------------
(* SpecFaults: the three collection runs on one match of each source, with *)
(* statements that fail                                                    *)

\* one bookmaker entry that can be stored and one whose title is null
FaultOdds ==
    {Odds("bet365", Some("Bet365"), 2000, Some(3000), 4000),
     Odds("unibet_eu", None, 2000, Some(3000), 4000)}

FaultyApiOddsUnit ==
    OddsUnit("api_odds", "odds_api", {Derby}, OddsLists(FaultOdds),
             {"none", "league", "match", "bookmaker", "odds"})

FaultyOddscheckerUnit ==
    OddsUnit("oddschecker", "oddschecker", ScrapedEvents,
             OddsLists(ScrapedOdds) \ {<<>>},
             {"none", "league", "match", "bookmaker", "odds"})

FaultyApiResultsUnit ==
    ResultsUnit({Score(Derby, 3, 3)}, {"none", "league", "match", "result"})

NextFaults ==
    \/ StartApiOdds
    \/ FaultyApiOddsUnit
    \/ StartOddschecker
    \/ FaultyOddscheckerUnit
    \/ StartApiResults
    \/ FaultyApiResultsUnit
    \/ CollectionReturn
    \/ Exit

SpecFaults == Init /\ [][NextFaults]_vars

----------------------------------------------------------------------------
(* SpecReportFaults: the reconciler on the fixtures the API lists, with an *)
(* INSERT that fails                                                       *)

NextReportFaults ==
    \/ StartApiOdds
    \/ ApiOddsUnit
    \/ CollectionReturn
    \/ StartKnownResults
    \/ KnownResultsStep
    \/ KnownResultsRaise
    \/ KnownResultsReturn
    \/ Exit

SpecReportFaults == Init /\ [][NextReportFaults]_vars

----------------------------------------------------------------------------
(* SpecNormalizer: one price cell of a scraped row is normalised *)

\* the text of a price cell, or None; TokenParts are the numerators and
\* denominators of the fractional tokens
Tokens ==
    LET TokenParts == {"0", "1", "5", "11", "10", "2.50", "0.5", "-5", "A", "", "NAN", "INF"}
    IN  {None}
            \cup {Some(t) : t \in {"", " ", "SP", "sp", "-", "EVS", "evens", "EVN", "abc",
                                   "1/2/3", " 5/2 ", "/", "1E1", "1_0", "+3/1", "infinity"}}
            \cup {Some(t) : t \in TokenParts}
            \cup {Some(num \o "/" \o den) : num \in TokenParts, den \in TokenParts}

InitNormalizer ==
    /\ db = EmptyDb
    /\ now = 0
    /\ pc = "cell"
    /\ queue \in {<<token>> : token \in Tokens}
    /\ stats = <<>>
    /\ units = 0
    /\ last = NoStep
    /\ hist = NoHistory

\* self._parse_fractional_odds(cell text)
ParseCell ==
    /\ pc = "cell"
    /\ LET call == parse_fractional_odds(Head(queue))
       IN  /\ last' = [op |-> "_parse_fractional_odds", token |-> Head(queue),
                       raised |-> call.raised, value |-> call.value]
           /\ pc' = IF call.raised THEN "raised" ELSE "returned"
    /\ queue' = <<>>
    /\ UNCHANGED <<db, now, stats, units, hist>>

NextNormalizer == ParseCell

SpecNormalizer == InitNormalizer /\ [][NextNormalizer]_vars

----------------------------------------------------------------------------
(* SpecExport: the exports of one fixture from the snapshots the odds      *)
(* table holds for it                                                      *)

Price(n, d) == Some(Fraction(n, d))

Triple(home, draw, away) == [home |-> home, draw |-> draw, away |-> away]

\* two competitive books, and one whose away price is the fraction 25/3 + 1
Book1 == Triple(Price(21, 10), Price(34, 10), Price(36, 10))

Book2 == Triple(Price(22, 10), Price(33, 10), Price(35, 10))

Book3 == Triple(Price(4, 3), Price(5, 1), Price(28, 3))

\* the triples a bookmaker's snapshot may hold: the books, overrounds of
\* exactly 1.00 and 1.50 and next to them, one flat value, a smallest price
\* of 1.01 and of 1.02, no draw price, a home price of 0 and a negative one
Triples ==
    {Book1, Book2, Book3,
     Triple(Price(2, 1), Price(4, 1), Price(4, 1)),
     Triple(Price(2, 1), Price(4, 1), Price(401, 100)),
     Triple(Price(3, 2), Price(3, 1), Price(2, 1)),
     Triple(Price(3, 2), Price(3, 1), Price(199, 100)),
     Triple(Price(3, 1), Price(3, 1), Price(3, 1)),
     Triple(Price(101, 100), Price(15, 1), Price(30, 1)),
     Triple(Price(102, 100), Price(20, 1), Price(50, 1)),
     Triple(Price(21, 10), None, Price(36, 10)),
     Triple(Price(0, 1), Price(34, 10), Price(36, 10)),
     Triple(Price(-2, 1), Price(34, 10), Price(36, 10))}

\* the bookmakers table in the order of ORDER BY b.name; the exchange is
\* listed under two keys with one name
ExportBookmakers == <<
    [key |-> "sport888", name |-> "888sport"],
    [key |-> "bet365", name |-> "Bet365"],
    [key |-> "betfair_ex_uk", name |-> "Betfair"],
    [key |-> "betfair_ex_eu", name |-> "Betfair"],
    [key |-> "betway", name |-> "Betway"],
    [key |-> "pinnacle", name |-> "Pinnacle"],
    [key |-> "unibet_eu", name |-> "Unibet"],
    [key |-> "williamhill", name |-> "William Hill"] >>

\* the rows of the join for a fixture: snapshots[i] is None when bookmaker i
\* has no snapshot of it
RECURSIVE joined_rows(_, _)
joined_rows(snapshots, i) ==
    IF i > Len(snapshots) THEN <<>>
    ELSE (IF snapshots[i] = None THEN <<>>
          ELSE <<[bookmaker |-> ExportBookmakers[i].name,
                  bookmaker_key |-> ExportBookmakers[i].key,
                  home |-> snapshots[i][1].home,
                  draw |-> snapshots[i][1].draw,
                  away |-> snapshots[i][1].away]>>)
             \o joined_rows(snapshots, i + 1)

FixtureSnapshots ==
    {<<a, b, c, d, e, f, g, h>> :
        a \in {None, Some(Book1)},
        b \in {Some(Book1)},
        c \in {None} \cup {Some(t) : t \in Triples},
        d \in {None} \cup {Some(t) : t \in Triples},
        e \in {None, Some(Book1)},
        f \in {None, Some(Book2)},
        g \in {Some(Book2)},
        h \in {None, Some(Book1), Some(Book3)}}

InitExport ==
    /\ db = EmptyDb
    /\ now = 0
    /\ pc = "fixture"
    /\ queue \in {joined_rows(snapshots, 1) : snapshots \in FixtureSnapshots}
    /\ stats = <<>>
    /\ units = 0
    /\ last = NoStep
    /\ hist = NoHistory

\* what an export did with the fixture
exported(op, odds_raw, entry) ==
    [op |-> op, odds_raw |-> odds_raw,
     valid_odds |-> valid_rows(odds_raw),
     odds_list |-> deduplicate_bookmakers(valid_rows(odds_raw)),
     entry |-> entry]

\* export_data: the first loop takes the fixture when it is upcoming, the
\* second when it has a result; both treat its rows alike
ExportData ==
    /\ pc = "fixture"
    /\ last' = exported("export_data", queue, export_entry(queue))
    /\ pc' \in {"matches_data", "results_data"}
    /\ UNCHANGED <<db, now, queue, stats, units, hist>>

\* export_csv_for_website
ExportCsv ==
    /\ pc = "fixture"
    /\ last' = exported("export_csv_for_website", queue, csv_entry(queue))
    /\ pc' = "odds_summary"
    /\ UNCHANGED <<db, now, queue, stats, units, hist>>

NextExport == ExportData \/ ExportCsv

SpecExport == InitExport /\ [][NextExport]_vars

----------------------------------------------------------------------------
(* SpecMatcher: teams_match is called on two names, then on the same names *)
(* the other way round                                                     *)

\* the key and the variants of entry k of TEAM_ALIASES
entry_names(k) == {TEAM_ALIASES[k].alias} \cup SeqToSet(TEAM_ALIASES[k].variants)

\* pairs of names of one entry, and pairs of SourceNames: names as the
\* sources print them, among them a women's side and a name that is no club's
NamePairs ==
    LET SourceNames ==
            {"Man United", "Manchester United", "Manchester United FC",
             "Manchester United Women", "Manchester City", "Tottenham Hotspur",
             "Inter Milan", "AC Milan", "Arsenal", ""}
    IN  UNION {entry_names(k) \X entry_names(k) : k \in 1..Len(TEAM_ALIASES)}
            \cup (SourceNames \X SourceNames)

InitMatcher ==
    /\ db = EmptyDb
    /\ now = 0
    /\ pc = "names"
    /\ queue \in NamePairs
    /\ stats = <<>>
    /\ units = 0
    /\ last = NoStep
    /\ hist = NoHistory

\* teams_match(a, b)
MatchForward ==
    /\ pc = "names"
    /\ last' = [op |-> "teams_match", espn_name |-> queue[1], db_name |-> queue[2],
                result |-> teams_match(queue[1], queue[2]), before |-> FALSE]
    /\ pc' = "forward"
    /\ UNCHANGED <<db, now, queue, stats, units, hist>>

\* teams_match(b, a)
MatchBackward ==
    /\ pc = "forward"
    /\ last' = [op |-> "teams_match", espn_name |-> queue[2], db_name |-> queue[1],
                result |-> teams_match(queue[2], queue[1]), before |-> last.result]
    /\ pc' = "backward"
    /\ UNCHANGED <<db, now, queue, stats, units, hist>>

NextMatcher == MatchForward \/ MatchBackward

SpecMatcher == InitMatcher /\ [][NextMatcher]_vars

----------------------------------------------------------------------------
(* SpecNames: normalize_team_name is called on one name *)

\* a club name as a source prints it, followed by none, one or two of the
\* suffixes
InitNames ==
    /\ db = EmptyDb
    /\ now = 0
    /\ pc = "name"
    /\ queue \in {<<base \o first \o second>> :
                     base \in {"Real Madrid", "Arsenal", " Inter", "Napoli SSC", ""},
                     first \in {"", " FC", " CF", " SC", " AC", " AFC", " SSC"},
                     second \in {"", " fc", " cf ", " sc", " ac", " afc", " ssc"}}
    /\ stats = <<>>
    /\ units = 0
    /\ last = NoStep
    /\ hist = NoHistory

\* normalize_team_name(name)
NormalizeName ==
    /\ pc = "name"
    /\ last' = [op |-> "normalize_team_name", name |-> queue[1],
                result |-> normalize_team_name(queue[1])]
    /\ pc' = "normalized"
    /\ UNCHANGED <<db, now, queue, stats, units, hist>>

SpecNames == InitNames /\ [][NormalizeName]_vars

----------------------------------------------------------------------------
(* SpecWindow: reports that carry a date, on the fixtures the API lists *)

\* the values find_matching_match(conn, result, date) can return: the ids
\* of the rows of SELECT ... WHERE commence_time BETWEEN ? AND ? AND status
\* = 'upcoming' that pass both teams_match tests (the query has no ORDER
\* BY, the loop returns on the first such row), or None
find_matching_match(d, result, date) ==
    LET date_start == isoformat([date EXCEPT !.h = @ - 12])
        date_end == isoformat([date EXCEPT !.h = @ + 36])
        found == {i \in 1..Len(d.matches) :
                     /\ ~text_less(d.matches[i].commence_time, date_start)
                     /\ ~text_less(date_end, d.matches[i].commence_time)
                     /\ d.matches[i].status = "upcoming"
                     /\ teams_match_of[result.home_team, d.matches[i].home_team]
                     /\ teams_match_of[result.away_team, d.matches[i].away_team]}
    IN  IF found = {} THEN {None} ELSE {Some(i) : i \in found}

\* the dates a report carries: 37, 36 and 0 hours before the kickoff of
\* 2026-01-17T15:00, 12 and 13 hours after it, with or without UTC offset
ReportDates == {[h |-> Jan17 + k, aware |-> aware] : k \in {-37, -36, 0, 12, 13},
                                                      aware \in BOOLEAN}

\* update_from_known_results(results_data) with one report that has the
\* optional key 'date'
StartDatedResults ==
    /\ pc = "idle"
    /\ \E result \in Reports, date \in ReportDates :
          LET results_data == <<[home_team |-> result.home_team,
                                 away_team |-> result.away_team,
                                 home_score |-> result.home_score,
                                 away_score |-> result.away_score,
                                 date |-> date]>>
          IN  /\ queue' = results_data
              /\ hist' = [hist EXCEPT !.cur_list = results_data]
    /\ pc' = "known_results"
    /\ stats' = [matched |-> 0, updated |-> 0, not_found |-> <<>>]
    /\ last' = [NoStep EXCEPT !.op = "start", !.run = "known_results"]
    /\ UNCHANGED <<db, now, units>>

\* match_id = find_matching_match(conn, result, date)
FindMatchingMatch ==
    /\ pc = "idle"
    /\ \E result \in Reports, date \in ReportDates :
          \E match_id \in find_matching_match(db, result, date) :
             last' = [op |-> "find_matching_match", run |-> "find_matching_match",
                      result |-> result, date |-> date, match_id |-> match_id]
    /\ pc' = "returned"
    /\ UNCHANGED <<db, now, queue, stats, units, hist>>

NextWindow ==
    \/ StartApiOdds
    \/ ApiOddsUnit
    \/ CollectionReturn
    \/ StartDatedResults
    \/ KnownResultsStep
    \/ KnownResultsReturn
    \/ FindMatchingMatch
    \/ Exit

SpecWindow == Init /\ [][NextWindow]_vars

----------------------------------------------------------------------------
(* SpecSnapshots: the odds collector, the result collector and the         *)
(* reconciler on one store, with the clock, so that results arrive on      *)
(* fixtures that already have a price history                              *)

SpecSnapshots ==
    Init /\ [][\/ Tick
               \/ StartApiOdds
               \/ OddsApiOddsUnit
               \/ StartApiResults
               \/ ApiResultsUnit
               \/ StartKnownResults
               \/ KnownResultsStep
               \/ KnownResultsReturn
               \/ CollectionReturn
               \/ Exit]_vars

----------------------------------------------------------------------------
(* SpecMatchTime: _parse_match_time is called on one time token, at a      *)
(* local time given by its weekday and hour                                *)

\* _parse_match_time(time_str) at now = (weekday, hour): `raised` tells
\* whether the call ends in an exception (time.replace raises ValueError
\* for an hour above 23 or a minute above 59); otherwise `value` is None or
\* the datetime, given as the days from today, the hour and the minute
parse_match_time(time_str, weekday, hour_now) ==
    LET s == strip(time_str)
        time_lower == lower(s)
        digit(i) == i <= Len(s) /\ contains(SubSeq(s, i, i), DIGITS)
        colon(i) == i <= Len(s) /\ SubSeq(s, i, i) = ":"
        \* re.search(r'(\d{1,2}):(\d{2})'): the leftmost start, two digits
        \* before the colon tried first
        two(i) == digit(i) /\ digit(i + 1) /\ colon(i + 2) /\ digit(i + 3) /\ digit(i + 4)
        one(i) == digit(i) /\ colon(i + 1) /\ digit(i + 2) /\ digit(i + 3)
        starts == {i \in 1..Len(s) : two(i) \/ one(i)}
        at == Min(starts)
        hour == IF two(at) THEN digits_value(SubSeq(s, at, at + 1))
                ELSE digits_value(SubSeq(s, at, at))
        minute == IF two(at) THEN digits_value(SubSeq(s, at + 3, at + 4))
                  ELSE digits_value(SubSeq(s, at + 2, at + 3))
        days == <<"mon", "tue", "wed", "thu", "fri", "sat", "sun">>
        named == {i \in 1..7 : contains(days[i], time_lower)}
        days_ahead ==
            IF contains("today", time_lower) THEN 0
            ELSE IF contains("tomorrow", time_lower) THEN 1
            ELSE IF named # {}
                 THEN LET ahead == ((Min(named) - 1) - weekday) % 7
                      IN  IF ahead = 0 /\ hour < hour_now THEN 7 ELSE ahead
            ELSE 0
    IN  IF time_str = "" THEN [raised |-> FALSE, value |-> None]
        ELSE IF starts = {} THEN [raised |-> FALSE, value |-> None]
        ELSE IF hour > 23 \/ minute > 59 THEN [raised |-> TRUE, value |-> None]
        ELSE [raised |-> FALSE,
              value |-> Some([days_ahead |-> days_ahead, hour |-> hour, minute |-> minute])]

InitMatchTime ==
    /\ db = EmptyDb
    /\ now = 0
    /\ pc = "time_token"
    /\ queue \in {<<day \o clock, weekday, hour_now>> :
                     day \in {"", "Today ", "Tomorrow ", "Sat ", " sun", "TBC"},
                     clock \in {"", "15:00", "9:30 ", "24:00", "15:75", "1234:56", "3:7"},
                     weekday \in {0, 5, 6},
                     hour_now \in {10, 20}}
    /\ stats = <<>>
    /\ units = 0
    /\ last = NoStep
    /\ hist = NoHistory

\* commence_time = self._parse_match_time(time_elem.get_text(strip=True))
ParseMatchTime ==
    /\ pc = "time_token"
    /\ LET out == parse_match_time(queue[1], queue[2], queue[3])
       IN  /\ last' = [op |-> "_parse_match_time", time_str |-> queue[1],
                       raised |-> out.raised, value |-> out.value]
           /\ pc' = IF out.raised THEN "raised" ELSE "parsed"
    /\ UNCHANGED <<db, now, queue, stats, units, hist>>

SpecMatchTime == InitMatchTime /\ [][ParseMatchTime]_vars

----------------------------------------------------------------------------
(* SpecHistory: export_data on a fixture whose bookmakers have a price     *)
(* history, up to two snapshots each                                       *)

\* the snapshots each bookmaker of ExportBookmakers has of the fixture,
\* oldest first; a snapshot differs from the one before it
SnapshotHistories ==
    LET Changing == {Book1, Book2, Book3,
                     Triple(Price(23, 10), None, Price(32, 10)),
                     Triple(Price(0, 1), Price(34, 10), Price(36, 10))}
    IN  {<<a, b, c, d, e, f, g, h>> :
            a \in {<<Book1>>},
            b \in {<<Book1>>, <<Book1, Book2>>, <<Book2, Book1>>, <<Book3, Book1>>},
            c \in {<<>>} \cup {<<t>> : t \in Changing}
                         \cup {p \in Changing \X Changing : p[1] # p[2]},
            d \in {<<>>, <<Book2>>},
            e \in {<<Book1>>},
            f \in {<<Book2>>},
            g \in {<<Book2>>, <<Book1, Book2>>},
            h \in {<<>>, <<Book3>>}}

\* the rows of the query of export_data for the fixture: every snapshot of
\* the match, ORDER BY b.name; the query leaves the order of the rows of
\* one name open, here oldest first or newest first
InitHistory ==
    /\ db = EmptyDb
    /\ now = 0
    /\ pc = "history"
    /\ queue \in
          {LET rows(i) ==
                   [k \in 1..Len(history[i]) |->
                       LET t == IF newest_first THEN Len(history[i]) + 1 - k ELSE k
                       IN  [bookmaker |-> ExportBookmakers[i].name,
                            bookmaker_key |-> ExportBookmakers[i].key,
                            home_win |-> history[i][t].home,
                            draw |-> history[i][t].draw,
                            away_win |-> history[i][t].away,
                            scraped_at |-> t]]
           IN  rows(1) \o rows(2) \o rows(3) \o rows(4) \o rows(5) \o rows(6)
                   \o rows(7) \o rows(8) :
              history \in SnapshotHistories, newest_first \in BOOLEAN}
    /\ stats = <<>>
    /\ units = 0
    /\ last = NoStep
    /\ hist = NoHistory

\* export_data on the rows of the fixture: the comprehension over odds_raw
\* keeps bookmaker, bookmaker_key and the prices of every row
ExportHistory ==
    /\ pc = "history"
    /\ LET odds_raw == [k \in 1..Len(queue) |->
                           [bookmaker |-> queue[k].bookmaker,
                            bookmaker_key |-> queue[k].bookmaker_key,
                            home |-> queue[k].home_win,
                            draw |-> queue[k].draw,
                            away |-> queue[k].away_win]]
       IN  last' = exported("export_data", odds_raw, export_entry(odds_raw))
    /\ pc' \in {"matches_data", "results_data"}
    /\ UNCHANGED <<db, now, queue, stats, units, hist>>

SpecHistory == InitHistory /\ [][ExportHistory]_vars

----------------------------------------------------------------------------
(* Properties of the reconciler and of the result table (Spec) *)

\* C1: running update_from_known_results a second time with the same list
\* leaves the store exactly as the first run left it, whatever upcoming
\* fixtures the store holds.
C1_RerunLeavesStore == hist.rerun => db = hist.prev_db

\* C2: a report that an earlier run applied (its fixture has a result) and
\* that is processed again is counted in matched, not counted in updated and
\* not listed in not_found.
C2_ReplayIsMatched ==
    [][ (/\ pc = "known_results"
         /\ Len(queue) > 0
         /\ queue' = Tail(queue)
         /\ \E a \in hist.applied :
               /\ a.result = Head(queue)
               /\ \E k \in 1..Len(db.results) : db.results[k].match_id = a.match_id)
        => (/\ stats'.matched = stats.matched + 1
            /\ stats'.updated = stats.updated
            /\ stats'.not_found = stats.not_found) ]_vars

\* C3: when a report is processed for which some upcoming fixture matches on
\* both names and has no result yet, exactly one result is stored, for such a
\* fixture, with the report's scores and the outcome derived from them; that
\* fixture becomes completed; matched and updated both grow by one.
C3_MatchIsRecorded ==
    [][ LET result == Head(queue)
            Fits(i) == /\ db.matches[i].status = "upcoming"
                       /\ teams_match_of[result.home_team, db.matches[i].home_team]
                       /\ teams_match_of[result.away_team, db.matches[i].away_team]
                       /\ ~\E k \in 1..Len(db.results) : db.results[k].match_id = i
            derived == IF result.home_score > result.away_score THEN "home"
                       ELSE IF result.away_score > result.home_score THEN "away"
                       ELSE "draw"
        IN  (/\ pc = "known_results"
             /\ Len(queue) > 0
             /\ queue' = Tail(queue)
             /\ \E i \in 1..Len(db.matches) : Fits(i))
            => (/\ \E i \in 1..Len(db.matches) :
                      /\ Fits(i)
                      /\ Cardinality({k \in 1..Len(db'.results) :
                                         db'.results[k].match_id = i}) = 1
                      /\ \E k \in 1..Len(db'.results) :
                            /\ db'.results[k].match_id = i
                            /\ db'.results[k].home_score = result.home_score
                            /\ db'.results[k].away_score = result.away_score
                            /\ db'.results[k].outcome = derived
                      /\ db'.matches[i].status = "completed"
                /\ Len(db'.results) = Len(db.results) + 1
                /\ stats'.matched = stats.matched + 1
                /\ stats'.updated = stats.updated + 1) ]_vars

\* a report has just been recorded on a fixture
C3_Witness ==
    /\ last.op = "report"
    /\ last.outcome = "updated"
    /\ \E k \in 1..Len(db.results) :
          db.results[k].match_id = last.match_id /\ db.results[k].source = "espn"
    /\ db.matches[last.match_id].status = "completed"

\* C4: when no upcoming fixture matches a report on both names, the report is
\* appended to not_found and the store is left unchanged.
C4_MissLeavesStore ==
    [][ LET result == Head(queue)
        IN  (/\ pc = "known_results"
             /\ Len(queue) > 0
             /\ queue' = Tail(queue)
             /\ ~\E i \in 1..Len(db.matches) :
                    /\ db.matches[i].status = "upcoming"
                    /\ teams_match_of[result.home_team, db.matches[i].home_team]
                    /\ teams_match_of[result.away_team, db.matches[i].away_team])
            => (/\ stats'.not_found =
                       Append(stats.not_found,
                              result.home_team \o " vs " \o result.away_team)
                /\ stats'.matched = stats.matched
                /\ db' = db) ]_vars

\* a report was not found while an upcoming fixture with its home team was
\* in the store
C4_Witness ==
    /\ last.op = "report"
    /\ last.outcome = "not_found"
    /\ Len(stats.not_found) > 0
    /\ stats.not_found[Len(stats.not_found)] = "Manchester United vs Arsenal"
    /\ \E i \in 1..Len(db.matches) :
          /\ db.matches[i].status = "upcoming"
          /\ db.matches[i].home_team = "Manchester United"

\* C5: each fixture has at most one result row, and that row holds the scores
\* of the most recent insert_result call made for the fixture.
C5_OneResultPerFixture ==
    /\ \A i \in 1..Len(db.matches) :
          Cardinality({k \in 1..Len(db.results) : db.results[k].match_id = i}) <= 1
    /\ \A x \in hist.last_insert :
          \E k \in 1..Len(db.results) :
             /\ db.results[k].match_id = x.match_id
             /\ db.results[k].home_score = x.home_score
             /\ db.results[k].away_score = x.away_score
    /\ \A k \in 1..Len(db.results) :
          \E x \in hist.last_insert : x.match_id = db.results[k].match_id

\* a result written by the reconciler has been replaced by one from the API
C5_Witness ==
    \E a \in hist.applied :
       \E k \in 1..Len(db.results) :
          /\ db.results[k].match_id = a.match_id
          /\ db.results[k].source = "odds_api"
          /\ db.results[k].home_score # a.result.home_score

\* C6: every stored result has outcome home when home_score > away_score,
\* away when away_score > home_score, and draw when the scores are equal.
C6_OutcomeFollowsScores ==
    \A k \in 1..Len(db.results) :
       LET r == db.results[k]
       IN  /\ r.home_score > r.away_score => r.outcome = "home"
           /\ r.away_score > r.home_score => r.outcome = "away"
           /\ r.home_score = r.away_score => r.outcome = "draw"

\* the table holds a drawn result and a decided one
C6_Witness ==
    /\ \E k \in 1..Len(db.results) : db.results[k].home_score = db.results[k].away_score
    /\ \E k \in 1..Len(db.results) : db.results[k].home_score # db.results[k].away_score

\* C7: get_or_create_match returns the same id whenever it is called with the
\* same (home team, away team, kickoff), and no two fixture rows share the
\* same (home team, away team, kickoff).
C7_FixtureKeyUnique ==
    /\ \A i, j \in 1..Len(db.matches) :
          (/\ db.matches[i].home_team = db.matches[j].home_team
           /\ db.matches[i].away_team = db.matches[j].away_team
           /\ db.matches[i].commence_time = db.matches[j].commence_time) => i = j
    /\ \A x, y \in hist.ids : x.key = y.key => x.id = y.id

\* a unit has been given the id of a fixture that an earlier unit created
C7_Witness ==
    /\ last.op = "unit"
    /\ last.match_id = 1
    /\ Len(db.matches) = 2
    /\ \E x \in hist.ids : x.id = 2

----------------------------------------------------------------------------
(* Properties of the stored snapshots (SpecOdds) *)

\* C8: a snapshot is written for a (fixture, bookmaker) pair only when the
\* pair has no earlier snapshot or the incoming triple differs from the
\* pair's most recent snapshot by more than 0.001 in some component; hence no
\* two consecutive snapshots of a pair agree within 0.001 in all of home,
\* draw and away.
C8_NoRepeatedSnapshot ==
    \A i, j \in 1..Len(db.odds) :
       LET a == db.odds[i]
           b == db.odds[j]
       IN  (/\ i < j
            /\ a.match_id = b.match_id
            /\ a.bookmaker_id = b.bookmaker_id
            /\ ~\E k \in (i + 1)..(j - 1) :
                   /\ db.odds[k].match_id = a.match_id
                   /\ db.odds[k].bookmaker_id = a.bookmaker_id)
           => ~(/\ abs(a.home_win - b.home_win) <= 1
                /\ abs(a.away_win - b.away_win) <= 1
                /\ \/ (a.draw = None /\ b.draw = None)
                   \/ (a.draw # None /\ b.draw # None /\ abs(a.draw[1] - b.draw[1]) <= 1))

\* C11: after any sequence of API and scraper collection runs, every odds
\* snapshot in the store has a strictly positive home price and away price,
\* and a strictly positive draw price whenever a draw price is present.
C11_PricesPositive ==
    \A i \in 1..Len(db.odds) :
       /\ db.odds[i].home_win > 0
       /\ db.odds[i].away_win > 0
       /\ db.odds[i].draw # None => db.odds[i].draw[1] > 0

----------------------------------------------------------------------------
(* Properties of the collection runs (SpecFaults) *)

\* C9: when an error occurs while a unit is processed, every write made
\* earlier in that unit is rolled back: the store is as it was before the
\* unit began.
C9_ErrorRollsBack ==
    [][ (units' = units + 1 /\ last'.raised) => db' = db ]_vars

\* C10: an error raised while a unit is processed is caught at the unit
\* boundary: it adds exactly one to the run's errors count, the run goes on
\* with the units that follow, and the run returns its tally instead of
\* raising.
C10_ErrorIsCounted ==
    /\ pc # "raised"
    /\ (pc \in CollectionRuns \/ (pc = "returned" /\ last.run \in CollectionRuns))
          => stats.errors = hist.raised
    /\ (last.op = "unit" /\ last.raised) => pc = last.run

\* a unit raised, the next unit of the run was processed, and the run
\* returned
C10_Witness ==
    /\ pc = "returned"
    /\ last.run \in CollectionRuns
    /\ hist.raised = 1
    /\ units = 2
    /\ Len(db.matches) > 0

----------------------------------------------------------------------------
(* Properties of the odds normalizer (SpecNormalizer) *)

\* C12: for every input token, _parse_fractional_odds returns either absent
\* (None) or a decimal price that is at least 1.0.
C12_PriceAtLeastOne ==
    last.op = "_parse_fractional_odds"
        => /\ ~last.raised
           /\ last.value # None => float_ge(last.value[1], Fraction(1, 1))

\* C13: _parse_fractional_odds never raises and maps each token as follows:
\* absent for an empty token, "SP" or "-"; exactly 2.0 for EVS, EVENS or EVN;
\* N/D + 1 for a fractional token "N/D" with numeric N and non-zero D; absent
\* for a fractional token with a zero denominator or non-numeric parts; the
\* numeral's value for a decimal numeral; absent for any other token.
C13_TokenMapping ==
    last.op = "_parse_fractional_odds"
        => LET s == IF last.token = None THEN "" ELSE upper(strip(last.token[1]))
               parts == split(s, "/")
               numeric(x) == is_number(unsigned(strip(x)))
               zero(x) == float(x).value = Fraction(0, 1)
               expected ==
                   IF s \in {"", "SP", "-"} THEN None
                   ELSE IF s \in {"EVS", "EVENS", "EVN"} THEN Some(Fraction(2, 1))
                   ELSE IF Len(parts) = 2
                        THEN (IF numeric(parts[1]) /\ numeric(parts[2]) /\ ~zero(parts[2])
                              THEN Some(float_add(float_truediv(float(parts[1]).value,
                                                                float(parts[2]).value).value,
                                                  Fraction(1, 1)))
                              ELSE None)
                   ELSE IF numeric(s) THEN Some(float(s).value)
                   ELSE None
           IN  /\ ~last.raised
               /\ last.value = expected

----------------------------------------------------------------------------
(* Properties of the quality filter, the aggregator and the exports        *)
(* (SpecExport)                                                            *)

\* C14: is_valid_odds_row(home, draw, away) is true exactly when all three
\* prices are present and > 0, the three are not all equal, the smallest of
\* them is >= 1.02, and the overround 1/home + 1/draw + 1/away lies in
\* [1.00, 1.50] with both bounds included.  A price is n/d with d > 0, so
\* the overround is (hd*dn*an + dd*hn*an + ad*hn*dn) / (hn*dn*an).
C14_ValidExactlyWhen ==
    last.op \in {"export_data", "export_csv_for_website"}
        => \A i \in 1..Len(last.odds_raw) :
              LET row == last.odds_raw[i]
                  present == row.home # None /\ row.draw # None /\ row.away # None
                  h == row.home[1]
                  d == row.draw[1]
                  a == row.away[1]
                  reciprocals == h.d * d.n * a.n + d.d * h.n * a.n + a.d * h.n * d.n
                  product == h.n * d.n * a.n
              IN  (\E j \in 1..Len(last.valid_odds) : last.valid_odds[j] = row)
                     <=> IF ~present THEN FALSE
                         ELSE /\ h.n > 0 /\ d.n > 0 /\ a.n > 0
                              /\ ~(h.n * d.d = d.n * h.d /\ d.n * a.d = a.n * d.d)
                              /\ \A p \in {h, d, a} : 50 * p.n >= 51 * p.d
                              /\ reciprocals >= product
                              /\ 2 * reciprocals <= 3 * product

\* the filter kept a row whose overround is exactly 1.00 or exactly 1.50
\* and dropped a row with three positive prices
C14_Witness ==
    /\ last.op = "export_data"
    /\ \E j \in 1..Len(last.valid_odds) :
          overround_of(last.valid_odds[j].home[1], last.valid_odds[j].draw[1],
                       last.valid_odds[j].away[1]) \in {MIN_OVERROUND, MAX_OVERROUND}
    /\ \E i \in 1..Len(last.odds_raw) :
          /\ \A column \in {"home", "draw", "away"} :
                /\ last.odds_raw[i][column] # None
                /\ last.odds_raw[i][column][1].n > 0
          /\ \A j \in 1..Len(last.valid_odds) : last.valid_odds[j] # last.odds_raw[i]

\* C15: deduplicate_bookmakers returns exactly one row for each distinct
\* bookmaker display name among its input rows, and the row kept for a name
\* is an input row of that name whose overround is the lowest among that
\* name's rows.
C15_OneRowPerName ==
    last.op \in {"export_data", "export_csv_for_website"}
        => LET input == last.valid_odds
               output == last.odds_list
               cheaper(x, y) ==
                   float_lt(overround_of(x.home[1], x.draw[1], x.away[1]),
                            overround_of(y.home[1], y.draw[1], y.away[1]))
           IN  /\ \A i \in 1..Len(input) :
                     Cardinality({k \in 1..Len(output) :
                                     output[k].bookmaker = input[i].bookmaker}) = 1
               /\ \A k \in 1..Len(output) :
                     /\ \E i \in 1..Len(input) : input[i] = output[k]
                     /\ \A i \in 1..Len(input) :
                           input[i].bookmaker = output[k].bookmaker
                               => ~cheaper(input[i], output[k])

\* two rows of one name came in, the second with the lower overround, and
\* the second is the one that went out
C15_Witness ==
    /\ last.op = "export_data"
    /\ \E i, j \in 1..Len(last.valid_odds) :
          /\ i < j
          /\ last.valid_odds[i].bookmaker = last.valid_odds[j].bookmaker
          /\ float_lt(overround_of(last.valid_odds[j].home[1], last.valid_odds[j].draw[1],
                                   last.valid_odds[j].away[1]),
                      overround_of(last.valid_odds[i].home[1], last.valid_odds[i].draw[1],
                                   last.valid_odds[i].away[1]))
          /\ \E k \in 1..Len(last.odds_list) : last.odds_list[k] = last.valid_odds[j]

\* C16: every fixture or historical result that appears in an export
\* reporting aggregated statistics (export_data and export_csv_for_website)
\* has more than 5 valid, deduplicated bookmaker rows; a fixture with 5 or
\* fewer such rows is excluded.
C16_MoreThanFiveRows ==
    (last.op \in {"export_data", "export_csv_for_website"} /\ last.entry # None)
        => Len(last.odds_list) > 5

\* C17: calculate_probability_stats reports as best price the maximum price
\* of the list and as best bookmaker the name at the first index where that
\* maximum occurs.
C17_BestIsMaximum ==
    (last.op = "export_data" /\ last.entry # None)
        => \A column \in {"home", "draw", "away"} :
              LET prices == column_odds(last.odds_list, column)
                  names == column_bookmakers(last.odds_list, column)
                  reported == last.entry[1].probability[column][1]
                  first == Min({i \in 1..Len(prices) :
                                   \A j \in 1..Len(prices) : float_ge(prices[i], prices[j])})
              IN  /\ reported.best_odds = prices[first]
                  /\ reported.best_bookmaker = Some(names[first])

\* C17 as the code has it: the best price reported is the maximum price of
\* the list rounded to 2 decimals (a multiple of 0.01 within 0.005 of the
\* maximum), and the best bookmaker is the name at the first index where the
\* maximum occurs.
C17_BestIsRoundedMaximum ==
    (last.op = "export_data" /\ last.entry # None)
        => \A column \in {"home", "draw", "away"} :
              LET prices == column_odds(last.odds_list, column)
                  names == column_bookmakers(last.odds_list, column)
                  reported == last.entry[1].probability[column][1]
                  first == Min({i \in 1..Len(prices) :
                                   \A j \in 1..Len(prices) : float_ge(prices[i], prices[j])})
                  best == reported.best_odds
                  maximum == prices[first]
              IN  /\ 100 % best.d = 0
                  /\ 200 * abs(best.n * maximum.d - maximum.n * best.d) <= best.d * maximum.d
                  /\ reported.best_bookmaker = Some(names[first])

\* several bookmakers offer the maximum home price, the first of them is
\* reported, and the maximum away price 9.3333 is reported as 9.33
C17_Witness ==
    /\ last.op = "export_data"
    /\ last.entry # None
    /\ LET prices == column_odds(last.odds_list, "home")
           names == column_bookmakers(last.odds_list, "home")
           reported == last.entry[1].probability["home"][1]
       IN  \E i, j \in 1..Len(prices) :
              /\ i < j
              /\ prices[i] = prices[j]
              /\ \A k \in 1..Len(prices) : float_ge(prices[i], prices[k])
              /\ \A k \in 1..(i - 1) : prices[k] # prices[i]
              /\ reported.best_bookmaker = Some(names[i])
    /\ last.entry[1].probability["away"][1].best_odds = Fraction(933, 100)

----------------------------------------------------------------------------
(* Properties of the team-name matcher (SpecMatcher) *)

\* C18: teams_match is symmetric: for every pair of team names a and b,
\* teams_match(a, b) equals teams_match(b, a).
C18_MatchSymmetric ==
    pc = "backward" => last.result = last.before

\* C19: for every entry of TEAM_ALIASES, teams_match is true between the key
\* and each of its variants and between any two variants of the same key, in
\* both argument orders.
C19_AliasesMatch ==
    (/\ pc \in {"forward", "backward"}
     /\ \E k \in 1..Len(TEAM_ALIASES) :
           last.espn_name \in entry_names(k) /\ last.db_name \in entry_names(k))
        => last.result

\* the key "man united" and its variant were matched in both orders, and so
\* were two variants of one key neither of which contains the other
C19_Witness ==
    /\ pc = "backward"
    /\ last.result
    /\ last.before
    /\ \/ (last.espn_name = "manchester united" /\ last.db_name = "man united")
       \/ (last.espn_name = "1. fc köln" /\ last.db_name = "fc cologne")

----------------------------------------------------------------------------
(* Properties of the reconciler when a statement fails (SpecReportFaults) *)

\* C20: update_from_known_results never raises for any list of result
\* reports: each report ends with a per-item outcome (matched/updated or not
\* found), and a failure on one report does not prevent the reports after it
\* from being processed.
C20_ReportsNeverRaise ==
    /\ pc # "raised"
    /\ (last.op = "report" /\ last.run = "known_results")
          => last.outcome \in {"updated", "skipped", "not_found"}
    /\ (pc = "returned" /\ last.run = "known_results") => Len(queue) = 0

----------------------------------------------------------------------------
(* Properties of normalize_team_name (SpecNames) *)

\* C21: normalize_team_name lower-cases and trims the name and then removes
\* exactly one trailing suffix from {' fc', ' cf', ' sc', ' ac', ' afc',
\* ' ssc'} when the name ends with one; it never removes more than one
\* suffix from a name.
C21_OneSuffixRemoved ==
    pc = "normalized"
        => LET name == strip(lower(last.name))
               ending == {i \in 1..Len(SUFFIXES) : endswith(name, SUFFIXES[i])}
           IN  last.result =
                   IF ending = {} THEN name
                   ELSE SubSeq(name, 1, Len(name) - Len(SUFFIXES[Min(ending)]))

----------------------------------------------------------------------------
(* Properties of the reconciler's choice of fixture (Spec) *)

----------------------------------------------------------------------------
(* Properties of the reconciler on dated reports (SpecWindow) *)

\* C23: a result report that carries a date is matched only to an upcoming
\* fixture whose kickoff lies within [date - 12 hours, date + 36 hours],
\* bounds included, and whose home and away names both match; this holds
\* for find_matching_match and for update_from_known_results when the
\* report has a date, and when no such fixture exists the report is not
\* matched.  (kickoff is the hour count the stored timestamp stands for;
\* find_matching_match leaves the store as it was, and the run's list has
\* one report.)
C23_MatchedWithinWindow ==
    LET kickoff(i) ==
            24 * (digits_value(SubSeq(db.matches[i].commence_time, 9, 10)) - 1)
                + digits_value(SubSeq(db.matches[i].commence_time, 12, 13))
        within(i, result, date) ==
            /\ date.h - 12 <= kickoff(i)
            /\ kickoff(i) <= date.h + 36
            /\ teams_match(result.home_team, db.matches[i].home_team)
            /\ teams_match(result.away_team, db.matches[i].away_team)
    IN  /\ (pc = "returned" /\ last.op = "find_matching_match" /\ last.match_id # None)
              => /\ db.matches[last.match_id[1]].status = "upcoming"
                 /\ within(last.match_id[1], last.result, last.date)
        /\ (pc = "known_results" /\ last.op = "report"
                /\ last.outcome \in {"updated", "skipped"})
              => within(last.match_id, hist.cur_list[1], hist.cur_list[1].date)

----------------------------------------------------------------------------
(* Properties of odds_changed in the collection runs (SpecOdds) *)

\* C24: odds_changed returns true whenever the incoming triple differs from
\* the pair's most recent snapshot by more than 0.001 in any of home, draw
\* or away, where a draw price present on one side and absent on the other
\* counts as a difference; so every such change produces a new snapshot in
\* the collection runs.  In every state of an API run, for every fixture,
\* stored bookmaker and entry the API can list for that bookmaker: when the
\* entry differs in that way from the snapshot the pair received last,
\* odds_changed can only return true and the loop body of the run stores
\* one snapshot.
C24_ChangeIsStored ==
    pc = "api_odds"
        => \A odds_info \in ApiOdds, m \in 1..Len(db.matches), b \in 1..Len(db.bookmakers) :
              LET mine == {i \in 1..Len(db.odds) :
                              db.odds[i].match_id = m /\ db.odds[i].bookmaker_id = b}
                  recent == db.odds[CHOOSE i \in mine : \A j \in mine : j <= i]
                  differs ==
                      \/ abs(recent.home_win - odds_info.home_win) > tolerance
                      \/ abs(recent.away_win - odds_info.away_win) > tolerance
                      \/ (recent.draw = None) # (odds_info.draw = None)
                      \/ /\ recent.draw # None
                         /\ odds_info.draw # None
                         /\ abs(recent.draw[1] - odds_info.draw[1]) > tolerance
              IN  (/\ mine # {}
                   /\ db.bookmakers[b].key = odds_info.bookmaker_key
                   /\ differs)
                      => /\ odds_changed(db, m, b, odds_info.home_win, odds_info.draw,
                                         odds_info.away_win) = {TRUE}
                         /\ \A out \in store_odds_list(db, m, <<odds_info>>, "odds_api",
                                                       "none", now, 0) :
                               ~out.raised /\ out.n = 1

----------------------------------------------------------------------------
(* C25: no step of the pipeline updates or deletes an odds snapshot: every *)
(* row of the odds table is still there, at its place and with all its     *)
(* fields, after the step; new snapshots are only appended                 *)

C25_SnapshotsKept ==
    [][\A i \in 1..Len(db.odds) :
          i <= Len(db'.odds) /\ db'.odds[i] = db.odds[i]]_vars

\* two snapshots of one fixture and bookmaker are stored, and a result has
\* been recorded on that fixture afterwards
C25_Witness ==
    /\ \E i, j \in 1..Len(db.odds) :
          /\ i < j
          /\ db.odds[i].match_id = db.odds[j].match_id
          /\ db.odds[i].bookmaker_id = db.odds[j].bookmaker_id
          /\ \E r \in 1..Len(db.results) : db.results[r].match_id = db.odds[i].match_id
          /\ last.match_id = db.odds[i].match_id
    /\ last.op \in {"report", "unit"}
    /\ last.run \in {"known_results", "api_results"}

----------------------------------------------------------------------------
(* C26: a fixture's status moves only from upcoming to completed, and it   *)
(* does so when a result is recorded: every fixture is upcoming or         *)
(* completed, a fixture that has a result is completed, a step that        *)
(* completes a fixture leaves a result row for it, and no step moves a     *)
(* completed fixture back                                                  *)

C26_StatusOnlyCompletes ==
    /\ [](/\ \A i \in 1..Len(db.matches) : db.matches[i].status \in {"upcoming", "completed"}
          /\ \A r \in 1..Len(db.results) :
                /\ db.results[r].match_id \in 1..Len(db.matches)
                /\ db.matches[db.results[r].match_id].status = "completed")
    /\ [][\A i \in 1..Len(db.matches) :
             /\ i <= Len(db'.matches)
             /\ db.matches[i].status = "completed" => db'.matches[i].status = "completed"
             /\ (db.matches[i].status = "upcoming" /\ db'.matches[i].status = "completed")
                   => \E r \in 1..Len(db'.results) : db'.results[r].match_id = i]_vars

\* an odds collector has just looked up a fixture that was completed by a
\* result, and the fixture is still completed
C26_Witness ==
    /\ last.op = "unit"
    /\ last.run \in {"api_odds", "oddschecker"}
    /\ last.match_id \in 1..Len(db.matches)
    /\ db.matches[last.match_id].status = "completed"
    /\ \E r \in 1..Len(db.results) : db.results[r].match_id = last.match_id

----------------------------------------------------------------------------
(* C27: _parse_match_time returns a datetime or None for every time token  *)
(* and never raises                                                        *)

C27_NeverRaises ==
    last.op = "_parse_match_time" =>
        /\ pc = "parsed"
        /\ ~last.raised
        /\ last.value = None \/ Len(last.value) = 1

----------------------------------------------------------------------------
(* C28: the odds row export_data exports for a bookmaker is the            *)
(* bookmaker's latest snapshot of the fixture, and older snapshots         *)
(* contribute neither to the odds list nor to the statistics: the entry is *)
(* the one computed from the latest snapshots alone, and every exported    *)
(* row carries the prices of the latest snapshot of its bookmaker          *)

C28_LatestSnapshotExported ==
    pc \in {"matches_data", "results_data"} =>
        LET is_latest(r) ==
                \A k \in 1..Len(queue) :
                    queue[k].bookmaker_key = r.bookmaker_key
                        => queue[k].scraped_at <= r.scraped_at
            latest == SelectSeq(queue, is_latest)
            latest_raw == [k \in 1..Len(latest) |->
                              [bookmaker |-> latest[k].bookmaker,
                               bookmaker_key |-> latest[k].bookmaker_key,
                               home |-> latest[k].home_win,
                               draw |-> latest[k].draw,
                               away |-> latest[k].away_win]]
        IN  /\ last.entry = export_entry(latest_raw)
            /\ last.entry # None =>
                  \A i \in 1..Len(last.entry[1].odds) :
                      \E k \in 1..Len(latest_raw) : latest_raw[k] = last.entry[1].odds[i]

----------------------------------------------------------------------------
(* C29: within one run of update_from_known_results each fixture receives  *)
(* a result from at most one report of the list (the results the run has   *)
(* recorded are on as many fixtures), and a step of the reconciler leaves  *)
(* every result row that exists as it is                                   *)

C29_OneResultPerRun ==
    /\ [](pc = "known_results" =>
             stats.updated = Cardinality({a.match_id : a \in hist.applied_now}))
    /\ [][pc = "known_results" =>
             \A k \in 1..Len(db.results) :
                 k <= Len(db'.results) /\ db'.results[k] = db.results[k]]_vars

\* the report just processed names the teams of a report that this run has
\* already recorded, it has recorded nothing itself, and the table holds an
\* earlier row beside the one of this run
C29_Witness ==
    /\ pc = "known_results"
    /\ last.op = "report"
    /\ last.outcome \in {"not_found", "skipped"}
    /\ Len(hist.cur_list) > Len(queue)
    /\ \E a \in hist.applied_now :
          /\ a.result.home_team = hist.cur_list[Len(hist.cur_list) - Len(queue)].home_team
          /\ a.result.away_team = hist.cur_list[Len(hist.cur_list) - Len(queue)].away_team
    /\ Len(db.results) >= 2

----------------------------------------------------------------------------
(* C30: when a run of update_from_known_results has returned, 'matched'    *)
(* plus the length of 'not_found' is the number of reports of the list,    *)
(* and 'updated' is at most 'matched'                                      *)

C30_TallyAddsUp ==
    (pc = "returned" /\ last.run = "known_results") =>
        /\ stats.matched + Len(stats.not_found) = Len(hist.cur_list)
        /\ stats.updated <= stats.matched
        /\ stats.updated >= 0

\* a run has returned that matched one report and missed another
C30_Witness ==
    /\ pc = "returned"
    /\ last.run = "known_results"
    /\ stats.matched >= 1
    /\ Len(stats.not_found) >= 1
    /\ Len(hist.cur_list) >= 2

====
